---- MODULE Spec2Model ----
(***************************************************************************)
(* A model of the strength-training analytics engine:                      *)
(*   workout_training.py  WorkoutTracker  (the history provider)           *)
(*   ai_prediction.py     AIPredictor     (predictor, trends, 1RM, plan)   *)
(*   fatigue_monitor.py   FatigueMonitor  (fatigue score)                  *)
(*                                                                         *)
(* Representation.                                                         *)
(*  - A string is a sequence of one-character strings, so that lower(),    *)
(*    strip() and the f"{user}_{exercise}" key are computed, not assumed.  *)
(*  - A date is a day number (the code's 'YYYY-MM-DD' strings compare and  *)
(*    subtract as day numbers); a negative number stands for a string      *)
(*    that strptime rejects.                                               *)
(*  - A weight is an integer number of hundredths of a kilogram.           *)
(*  - A number that is not an integer is an exact fraction <<n, d>>, d > 0.*)
(*    The code computes in binary floating point; the model computes the   *)
(*    exact value, and the input sets avoid exact rounding ties whose      *)
(*    direction would depend on the last bit of a float.                   *)
(*  - The fitted regression is kept as the training data it was fitted on  *)
(*    (X, y, feature set): R2 and MAE are functions of exactly that, so    *)
(*    two stored fits are the same fit iff these agree.  A fit on the one  *)
(*    feature days_since_start is least squares in one variable and its    *)
(*    prediction is computed exactly; so is that of a constant history.    *)
(*    The prediction of a three-feature fit is an input of the             *)
(*    predict_next_weight action.                                          *)
(*  - DataFrames of at most 16 rows are sorted by numpy's insertion sort,  *)
(*    which is stable: rows of equal date keep their stored order.         *)
(*  - _save_data is taken to succeed (storage is outside the core).        *)
(***************************************************************************)
EXTENDS Integers, Sequences, FiniteSets, TLC

VARIABLES workouts_df,    \* WorkoutTracker.workouts_df: the stored rows, in order
          models,         \* AIPredictor.models: key -> fitted model
          model_metrics,  \* AIPredictor.model_metrics: key -> metrics of that fit
          now,            \* datetime.now(), as a day number
          ret             \* the last call: operation, arguments, returned value

vars == <<workouts_df, models, model_metrics, now, ret>>

-----------------------------------------------------------------------------
(* Bounds of the model *)

MaxRows == 3        \* rows the store may hold in Spec

-----------------------------------------------------------------------------
(* Arithmetic helpers *)

Min(a, b) == IF a <= b THEN a ELSE b

Max(a, b) == IF a >= b THEN a ELSE b

Abs(a) == IF a < 0 THEN -a ELSE a

RECURSIVE GCD(_, _)
GCD(a, b) == IF b = 0 THEN a ELSE GCD(b, a % b)

\* the fraction n/d (d # 0) in lowest terms with a positive denominator
Frac(n, d) ==
    LET g == GCD(Abs(n), Abs(d))
        s == IF d < 0 THEN -1 ELSE 1
    IN  <<s * (n \div g), s * (d \div g)>>

FAdd(p, q) == Frac(p[1] * q[2] + q[1] * p[2], p[2] * q[2])

FSub(p, q) == Frac(p[1] * q[2] - q[1] * p[2], p[2] * q[2])

FMul(p, q) == Frac(p[1] * q[1], p[2] * q[2])

FInt(k) == <<k, 1>>

FLt(p, q) == p[1] * q[2] < q[1] * p[2]

FLe(p, q) == p[1] * q[2] <= q[1] * p[2]

FMin(p, q) == IF FLe(p, q) THEN p ELSE q

FMax(p, q) == IF FLe(q, p) THEN p ELSE q

FAbs(p) == <<Abs(p[1]), p[2]>>

\* Python's round(n/d) for d > 0: to the nearest integer, ties to the even one
RoundHalfEven(n, d) ==
    LET q == n \div d
        r == n % d
    IN  IF 2 * r < d THEN q
        ELSE IF 2 * r > d THEN q + 1
        ELSE IF q % 2 = 0 THEN q ELSE q + 1

RECURSIVE SumSeq(_)
SumSeq(s) == IF s = <<>> THEN 0 ELSE Head(s) + SumSeq(Tail(s))

\* the rows of s satisfying Keep, in order (a boolean-mask selection)
SelectRows(s, Keep(_)) ==
    LET F[i \in 0..Len(s)] ==
            IF i = 0 THEN <<>>
            ELSE IF Keep(s[i]) THEN Append(F[i - 1], s[i]) ELSE F[i - 1]
    IN  F[Len(s)]

Dates(s) == {s[i].date : i \in DOMAIN s}

-----------------------------------------------------------------------------
(* Strings *)

LowerChar(c) ==
    CASE c = "A" -> "a"
      [] c = "B" -> "b"
      [] c = "C" -> "c"
      [] OTHER -> c

\* str.lower()
Lower(s) == [i \in DOMAIN s |-> LowerChar(s[i])]

RECURSIVE LStrip(_)
LStrip(s) == IF s # <<>> /\ Head(s) = " " THEN LStrip(Tail(s)) ELSE s

RECURSIVE RStrip(_)
RStrip(s) ==
    IF s # <<>> /\ s[Len(s)] = " " THEN RStrip(SubSeq(s, 1, Len(s) - 1)) ELSE s

\* str.strip()
Strip(s) == RStrip(LStrip(s))

\* f"{user}_{exercise}"
ModelKey(user, exercise) == user \o <<"_">> \o exercise

-----------------------------------------------------------------------------
(* Sorting *)

RECURSIVE InsertAsc(_, _)
\* r placed after every row of the ascending s whose date is <= r.date
InsertAsc(s, r) ==
    IF s = <<>> THEN <<r>>
    ELSE IF Head(s).date <= r.date THEN <<Head(s)>> \o InsertAsc(Tail(s), r)
    ELSE <<r>> \o s

RECURSIVE SortAsc(_)
\* DataFrame.sort_values('date')
SortAsc(s) ==
    IF s = <<>> THEN <<>>
    ELSE InsertAsc(SortAsc(SubSeq(s, 1, Len(s) - 1)), s[Len(s)])

RECURSIVE InsertDesc(_, _)
InsertDesc(s, r) ==
    IF s = <<>> THEN <<r>>
    ELSE IF Head(s).date >= r.date THEN <<Head(s)>> \o InsertDesc(Tail(s), r)
    ELSE <<r>> \o s

RECURSIVE SortDesc(_)
\* DataFrame.sort_values('date', ascending=False)
SortDesc(s) ==
    IF s = <<>> THEN <<>>
    ELSE InsertDesc(SortDesc(SubSeq(s, 1, Len(s) - 1)), s[Len(s)])

-----------------------------------------------------------------------------
(* WorkoutTracker: the queries *)

get_user_workouts(df, user) ==
    SortAsc(SelectRows(df, LAMBDA r : Lower(r.user) = Lower(user)))

get_exercise_history(df, user, exercise) ==
    SortAsc(SelectRows(get_user_workouts(df, user),
                       LAMBDA r : Lower(r.exercise) = Lower(exercise)))

get_recent_workouts(df, today, user, days) ==
    SortDesc(SelectRows(get_user_workouts(df, user),
                        LAMBDA r : r.date >= today - days))

-----------------------------------------------------------------------------
(* WorkoutTracker: the store *)

_validate_workout_data(user, date, exercise, sets, reps, weight, rpe) ==
    /\ user # <<>>
    /\ exercise # <<>>
    /\ date >= 0
    /\ 1 <= sets /\ sets <= 20
    /\ 1 <= reps /\ reps <= 50
    /\ 0 <= weight /\ weight <= 100000
    /\ 1 <= rpe /\ rpe <= 10

NewWorkout(user, date, exercise, sets, reps, weight, rpe) ==
    [user |-> Strip(user), date |-> date, exercise |-> Strip(exercise),
     sets |-> sets, reps |-> reps, weight |-> weight, rpe |-> rpe]

add_workout(user, date, exercise, sets, reps, weight, rpe) ==
    /\ IF _validate_workout_data(user, date, exercise, sets, reps, weight, rpe)
       THEN /\ workouts_df' = Append(workouts_df,
                     NewWorkout(user, date, exercise, sets, reps, weight, rpe))
            /\ ret' = [call |-> [op |-> "add_workout"], val |-> [status |-> "ok"]]
       ELSE /\ workouts_df' = workouts_df
            /\ ret' = [call |-> [op |-> "add_workout"], val |-> [status |-> "rejected"]]
    /\ UNCHANGED <<models, model_metrics, now>>

\* the boolean mask of delete_workout and update_workout
Matches(r, user, date, exercise) ==
    /\ Lower(r.user) = Lower(user)
    /\ r.date = date
    /\ Lower(r.exercise) = Lower(exercise)

DeleteRows(df, user, date, exercise) ==
    SelectRows(df, LAMBDA r : ~Matches(r, user, date, exercise))

\* delete_workout that also drops the cached metrics of the deleted history
delete_workout_Evicting(user, date, exercise) ==
    /\ workouts_df' = DeleteRows(workouts_df, user, date, exercise)
    /\ model_metrics' =
           [k \in DOMAIN model_metrics \ {ModelKey(user, exercise)} |->
              model_metrics[k]]
    /\ ret' = [call |-> [op |-> "delete_workout"], val |-> [status |-> "ok"]]
    /\ UNCHANGED <<models, now>>

delete_workout(user, date, exercise) ==
    /\ IF \E i \in DOMAIN workouts_df : Matches(workouts_df[i], user, date, exercise)
       THEN /\ workouts_df' = DeleteRows(workouts_df, user, date, exercise)
            /\ ret' = [call |-> [op |-> "delete_workout"], val |-> [status |-> "ok"]]
       ELSE /\ workouts_df' = workouts_df
            /\ ret' = [call |-> [op |-> "delete_workout"], val |-> [status |-> "not_found"]]
    /\ UNCHANGED <<models, model_metrics, now>>

\* an optional argument is a set: {} for None, {v} for the value v
Updated(old, opt) == IF opt = {} THEN old ELSE CHOOSE v \in opt : TRUE

UpdateRow(r, sets, reps, weight, rpe) ==
    [r EXCEPT !.sets = Updated(@, sets), !.reps = Updated(@, reps),
              !.weight = Updated(@, weight), !.rpe = Updated(@, rpe)]

update_workout(user, date, exercise, sets, reps, weight, rpe) ==
    /\ IF \E i \in DOMAIN workouts_df : Matches(workouts_df[i], user, date, exercise)
       THEN /\ workouts_df' =
                 [i \in DOMAIN workouts_df |->
                    IF Matches(workouts_df[i], user, date, exercise)
                    THEN UpdateRow(workouts_df[i], sets, reps, weight, rpe)
                    ELSE workouts_df[i]]
            /\ ret' = [call |-> [op |-> "update_workout"], val |-> [status |-> "ok"]]
       ELSE /\ workouts_df' = workouts_df
            /\ ret' = [call |-> [op |-> "update_workout"], val |-> [status |-> "not_found"]]
    /\ UNCHANGED <<models, model_metrics, now>>

-----------------------------------------------------------------------------
(* AIPredictor: predict_next_weight and get_model_accuracy *)

None == [status |-> "none"]

Some(v) == [status |-> "ok", value |-> v]

\* dict.setdefault(k, v): the first writer of a key wins
Put_KeepingFirst(d, k, v) ==
    [x \in DOMAIN d \cup {k} |-> IF x \in DOMAIN d THEN d[x] ELSE v]

\* dict assignment d[k] = v
Put(d, k, v) == [x \in DOMAIN d \cup {k} |-> IF x = k THEN v ELSE d[x]]

\* the guard of line 65 with the threshold off by one
InsufficientHistory_TwoSuffice(exercise_data) == Len(exercise_data) < 2

InsufficientHistory(exercise_data) == Len(exercise_data) < 3

days_since_start(exercise_data, i) ==
    exercise_data[i].date - exercise_data[1].date

\* the rows of X: days_since_start, and with use_rpe also rpe and rpe * days
Features(exercise_data, use_rpe) ==
    [i \in DOMAIN exercise_data |->
        IF use_rpe
        THEN <<days_since_start(exercise_data, i), exercise_data[i].rpe,
               exercise_data[i].rpe * days_since_start(exercise_data, i)>>
        ELSE <<days_since_start(exercise_data, i)>>]

\* LinearRegression().fit(X, y), kept as what it was fitted on
Fit(exercise_data, use_rpe) ==
    [X |-> Features(exercise_data, use_rpe),
     y |-> [i \in DOMAIN exercise_data |-> exercise_data[i].weight]]

\* r2_score(y, model.predict(X)): the R2 of that fit
r2_score(model) == [r2_of |-> model]

\* mean_absolute_error(y, model.predict(X)): the MAE of that fit
mean_absolute_error(model) == [mae_of |-> model]

Metrics(model, today) ==
    [r2_score |-> r2_score(model),
     mean_absolute_error |-> mean_absolute_error(model),
     data_points |-> Len(model.X),
     last_updated |-> today]

\* least squares of y on the single feature x with an intercept, evaluated at
\* x0: mean(y) + Sxy/Sxx * (x0 - mean(x)), and mean(y) when all x are equal
\* (the centred column is zero and the minimum-norm coefficient is 0)
SimpleRegression(x, y, x0) ==
    LET n == Len(x)
        sx == SumSeq(x)
        sy == SumSeq(y)
        sxx == n * SumSeq([i \in DOMAIN x |-> x[i] * x[i]]) - sx * sx
        sxy == n * SumSeq([i \in DOMAIN x |-> x[i] * y[i]]) - sx * sy
    IN  IF sxx = 0 THEN Frac(sy, n)
        ELSE FAdd(Frac(sy, n), FMul(Frac(sxy, sxx), Frac(n * x0 - sx, n)))

\* model.predict(next_features)[0], lines 112-124, in hundredths of a kilogram.
\* With the single feature it is the regression line at last day + 7.  With
\* the three features a constant y is reproduced exactly; otherwise the value
\* depends on the minimum-norm solution of an under- or over-determined
\* system and is the caller-supplied raw: any value.
Prediction(model, raw) ==
    LET n == Len(model.X)
        x == [i \in DOMAIN model.X |-> model.X[i][1]]
        next_days == x[n] + 7
    IN  IF Len(model.X[1]) = 1 THEN SimpleRegression(x, model.y, next_days)
        ELSE IF \A i \in DOMAIN model.y : model.y[i] = model.y[1]
             THEN FInt(model.y[1])
        ELSE FInt(raw)

\* lines 126-138: prediction a fraction and last_weight an integer, both in
\* hundredths of a kilogram; computed in thousandths, where 0.1 * last_weight
\* is last_weight and 0.5 kg is 500; the result is in hundredths again
\* a clamp without the cap of 10 percent
SafeWeight_Uncapped(prediction, last_weight) ==
    LET suggested_increase ==
            FMax(FSub(FMul(prediction, FInt(10)), FInt(10 * last_weight)), FInt(500))
        predicted_weight == FAdd(FInt(10 * last_weight), suggested_increase)
    IN  50 * RoundHalfEven(predicted_weight[1], 500 * predicted_weight[2])

SafeWeight(prediction, last_weight) ==
    LET max_increase == FInt(last_weight)
        min_increase == FInt(500)
        suggested_increase ==
            FMax(FMin(FSub(FMul(prediction, FInt(10)), FInt(10 * last_weight)),
                      max_increase),
                 min_increase)
        predicted_weight == FAdd(FInt(10 * last_weight), suggested_increase)
    IN  50 * RoundHalfEven(predicted_weight[1], 500 * predicted_weight[2])

\* dict.pop(k, None)
Without(d, k) == [x \in DOMAIN d \ {k} |-> d[x]]

\* a predictor that drops the entry of its key when the history is too short
predict_next_weight_Clearing(user, exercise, use_rpe, raw) ==
    LET exercise_data == get_exercise_history(workouts_df, user, exercise)
        model == Fit(exercise_data, use_rpe)
        model_key == ModelKey(user, exercise)
        last_weight == exercise_data[Len(exercise_data)].weight
        call == [op |-> "predict_next_weight", user |-> user,
                 exercise |-> exercise, use_rpe |-> use_rpe]
    IN  /\ IF InsufficientHistory(exercise_data)
           THEN /\ models' = Without(models, model_key)
                /\ model_metrics' = Without(model_metrics, model_key)
                /\ ret' = [call |-> call, val |-> None]
           ELSE /\ models' = Put(models, model_key, model)
                /\ model_metrics' = Put(model_metrics, model_key, Metrics(model, now))
                /\ ret' = [call |-> call,
                           val |-> Some(SafeWeight(Prediction(model, raw), last_weight))]
        /\ UNCHANGED <<workouts_df, now>>

predict_next_weight(user, exercise, use_rpe, raw) ==
    LET exercise_data == get_exercise_history(workouts_df, user, exercise)
        model == Fit(exercise_data, use_rpe)
        model_key == ModelKey(user, exercise)
        last_weight == exercise_data[Len(exercise_data)].weight
        call == [op |-> "predict_next_weight", user |-> user,
                 exercise |-> exercise, use_rpe |-> use_rpe]
    IN  /\ IF InsufficientHistory(exercise_data)
           THEN /\ UNCHANGED <<models, model_metrics>>
                /\ ret' = [call |-> call, val |-> None]
           ELSE /\ models' = Put(models, model_key, model)
                /\ model_metrics' = Put(model_metrics, model_key, Metrics(model, now))
                /\ ret' = [call |-> call,
                           val |-> Some(SafeWeight(Prediction(model, raw), last_weight))]
        /\ UNCHANGED <<workouts_df, now>>

\* the value get_model_accuracy returns in a state
ModelAccuracy(metrics, user, exercise) ==
    LET model_key == ModelKey(user, exercise)
    IN  IF model_key \in DOMAIN metrics
        THEN Some(metrics[model_key].r2_score)
        ELSE None

get_model_accuracy(user, exercise) ==
    /\ ret' = [call |-> [op |-> "get_model_accuracy", user |-> user,
                         exercise |-> exercise],
               val |-> ModelAccuracy(model_metrics, user, exercise)]
    /\ UNCHANGED <<workouts_df, models, model_metrics, now>>

-----------------------------------------------------------------------------
(* AIPredictor: analyze_strength_trends and predict_performance_plateau *)

\* Python's round(n/d, k) as an integer count of 10^-k units, scale = 10^k
RoundTo(p, scale) == RoundHalfEven(p[1] * scale, p[2])

\* Series.mean() of the rpe column
MeanRpe(rows) == Frac(SumSeq([i \in DOMAIN rows |-> rows[i].rpe]), Len(rows))

\* lines 201-205, unrounded, in percent
PercentageChange(first_weight, last_weight) ==
    IF first_weight > 0
    THEN Frac(100 * (last_weight - first_weight), first_weight)
    ELSE FInt(0)

\* a classifier whose stable band includes the threshold
TrendOf_Inclusive(percentage_change) ==
    IF FLe(FAbs(percentage_change), FInt(2)) THEN "stable"
    ELSE IF FLt(FInt(0), percentage_change) THEN "increasing"
    ELSE "decreasing"

\* lines 207-213
TrendOf(percentage_change) ==
    IF FLt(FAbs(percentage_change), FInt(2)) THEN "stable"
    ELSE IF FLt(FInt(0), percentage_change) THEN "increasing"
    ELSE "decreasing"

\* a rate over the span itself, however short
WeeklyProgression_ShortSpan(weight_change, days_span) ==
    FMul(FInt(weight_change), Frac(7, Max(days_span, 1)))

\* lines 215-218, unrounded, in hundredths of a kilogram per week
WeeklyProgression(weight_change, days_span) ==
    FMul(FInt(weight_change), Frac(7, Max(days_span, 7)))

\* lines 220-230
RpeTrend(recent_data) ==
    LET n == Len(recent_data)
        half == n \div 2
        first_half_rpe == MeanRpe(SubSeq(recent_data, 1, half))
        second_half_rpe == MeanRpe(SubSeq(recent_data, n - half + 1, n))
        rpe_change == FSub(second_half_rpe, first_half_rpe)
    IN  IF n < 3 THEN "stable"
        ELSE IF FLt(Frac(1, 2), rpe_change) THEN "increasing"
        ELSE IF FLt(rpe_change, Frac(-1, 2)) THEN "decreasing"
        ELSE "stable"

\* datetime.now() - timedelta(days) keeps the time of day, the stored dates are
\* midnights: unless the call happens at midnight exactly, the row dated
\* exactly `days` days ago is older than the cutoff
TrendWindow(exercise_data, today, days, midnight) ==
    SelectRows(exercise_data,
               LAMBDA r : r.date >= today - days + (IF midnight THEN 0 ELSE 1))

\* the record analyze_strength_trends returns
TrendAnalysis(df, today, user, exercise, days, midnight) ==
    LET exercise_data == get_exercise_history(df, user, exercise)
        recent_data == SortAsc(TrendWindow(exercise_data, today, days, midnight))
        first_weight == recent_data[1].weight
        last_weight == recent_data[Len(recent_data)].weight
        weight_change == last_weight - first_weight
        percentage_change == PercentageChange(first_weight, last_weight)
        days_span == recent_data[Len(recent_data)].date - recent_data[1].date
    IN  IF exercise_data = <<>> THEN [status |-> "no_data"]
        ELSE IF Len(recent_data) < 2 THEN [status |-> "insufficient_data"]
        ELSE [status |-> "success",
              trend |-> TrendOf(percentage_change),
              weight_change |-> RoundTo(Frac(weight_change, 100), 10),
              percentage_change |-> RoundTo(percentage_change, 10),
              weekly_progression |->
                  RoundTo(WeeklyProgression(weight_change, days_span), 1),
              total_sessions |-> Len(recent_data),
              days_analyzed |-> days_span,
              first_weight |-> first_weight,
              last_weight |-> last_weight,
              rpe_trend |-> RpeTrend(recent_data),
              avg_rpe |-> RoundTo(MeanRpe(recent_data), 10)]

analyze_strength_trends(user, exercise, days, midnight) ==
    /\ ret' = [call |-> [op |-> "analyze_strength_trends", user |-> user,
                         exercise |-> exercise, days |-> days,
                         midnight |-> midnight],
               val |-> TrendAnalysis(workouts_df, now, user, exercise, days, midnight)]
    /\ UNCHANGED <<workouts_df, models, model_metrics, now>>

\* lines 267-290: the indicators that fire, each with its contribution
PlateauIndicators(t) ==
    (IF Abs(t.weekly_progression) < 50
     THEN {<<"Minimal weight progression", 2>>} ELSE {})
    \cup
    (IF t.rpe_trend = "increasing" /\ t.trend = "stable"
     THEN {<<"RPE increasing without weight progression", 3>>} ELSE {})
    \cup
    (IF Abs(t.percentage_change) < 30 /\ t.total_sessions > 8
     THEN {<<"Low overall progression rate", 2>>} ELSE {})
    \cup
    (IF t.avg_rpe # 0 /\ t.avg_rpe > 85
     THEN {<<"Consistently high RPE", 2>>} ELSE {})

RECURSIVE SumContributions(_)
SumContributions(S) ==
    IF S = {} THEN 0
    ELSE LET x == CHOOSE y \in S : TRUE IN x[2] + SumContributions(S \ {x})

\* a mapping whose moderate band starts one point late
PlateauRisk_LateModerate(plateau_score) ==
    IF plateau_score >= 5 THEN "high"
    ELSE IF plateau_score >= 4 THEN "moderate"
    ELSE "low"

PlateauRisk(plateau_score) ==
    IF plateau_score >= 5 THEN "high"
    ELSE IF plateau_score >= 3 THEN "moderate"
    ELSE "low"

\* an assessment that passes the trend analysis' own failure tag on
PlateauPrediction_PassingTag(df, today, user, exercise, midnight) ==
    LET trend_analysis == TrendAnalysis(df, today, user, exercise, 60, midnight)
    IN  IF trend_analysis.status # "success" THEN [status |-> trend_analysis.status]
        ELSE [status |-> "success", plateau_risk |-> "low", plateau_score |-> 0,
              indicators |-> {}, trend_data |-> trend_analysis]

PlateauPrediction(df, today, user, exercise, midnight) ==
    LET trend_analysis == TrendAnalysis(df, today, user, exercise, 60, midnight)
        fired == PlateauIndicators(trend_analysis)
        plateau_score == SumContributions(fired)
    IN  IF trend_analysis.status # "success" THEN [status |-> "insufficient_data"]
        ELSE [status |-> "success",
              plateau_risk |-> PlateauRisk(plateau_score),
              plateau_score |-> plateau_score,
              indicators |-> {x[1] : x \in fired},
              trend_data |-> trend_analysis]

predict_performance_plateau(user, exercise, midnight) ==
    /\ ret' = [call |-> [op |-> "predict_performance_plateau", user |-> user,
                         exercise |-> exercise],
               val |-> PlateauPrediction(workouts_df, now, user, exercise, midnight)]
    /\ UNCHANGED <<workouts_df, models, model_metrics, now>>

-----------------------------------------------------------------------------
(* AIPredictor: predict_1rm *)

\* a chart one step lower: RPE 10 at 97 percent
rpe_percentages_OneStepLower == <<70, 73, 76, 79, 82, 85, 88, 91, 94, 97>>

\* the dict rpe_percentages, lines 418-421: keys 1..10
rpe_percentages == <<73, 76, 79, 82, 85, 88, 91, 94, 97, 100>>

\* the dict rep_adjustments, lines 427-430: keys 1..10
rep_adjustments == <<0, -3, -6, -9, -12, -15, -18, -21, -24, -27>>

\* a penalty of 3 points for every rep, the first included
RepAdjustment_PerRep(reps) == -3 * reps

\* rep_adjustments.get(min(reps, 10), -30)
RepAdjustment(reps) ==
    IF Min(reps, 10) \in DOMAIN rep_adjustments
    THEN rep_adjustments[Min(reps, 10)] ELSE -30

MaxWeight(rows) ==
    CHOOSE w \in {rows[i].weight : i \in DOMAIN rows} :
        \A i \in DOMAIN rows : rows[i].weight <= w

\* lines 441-447, estimated_1rm = weight / (estimated_percentage / 100) unrounded
Confidence(exercise_history, weight, estimated_percentage) ==
    LET estimated_1rm == Frac(100 * weight, estimated_percentage)
        max_weight == FInt(MaxWeight(exercise_history))
    IN  IF exercise_history = <<>> THEN "medium"
        ELSE IF FLt(FMul(max_weight, Frac(3, 2)), estimated_1rm) THEN "low"
        ELSE IF FLt(FAbs(FSub(estimated_1rm, max_weight)),
                    FMul(max_weight, Frac(1, 10))) THEN "high"
        ELSE "medium"

\* a validity test that rejects RPE 10
ValidRpe_UpToNine(rpe) == rpe \in 1..9

\* line 423: rpe in rpe_percentages
ValidRpe(rpe) == rpe \in DOMAIN rpe_percentages

\* the record predict_1rm returns; estimated_1rm in tenths of a kilogram
OneRepMax(df, user, exercise, reps, weight, rpe) ==
    LET base_percentage == rpe_percentages[rpe]
        estimated_percentage == base_percentage + RepAdjustment(reps)
    IN  IF ~ValidRpe(rpe) THEN [status |-> "invalid_rpe"]
        ELSE [status |-> "success",
              estimated_1rm |-> RoundTo(Frac(weight, estimated_percentage), 10),
              confidence |-> Confidence(get_exercise_history(df, user, exercise),
                                        weight, estimated_percentage),
              calculation_details |->
                  [weight |-> weight, reps |-> reps, rpe |-> rpe,
                   estimated_percentage |-> estimated_percentage]]

predict_1rm(user, exercise, reps, weight, rpe) ==
    /\ ret' = [call |-> [op |-> "predict_1rm", user |-> user, exercise |-> exercise,
                         reps |-> reps, weight |-> weight, rpe |-> rpe],
               val |-> OneRepMax(workouts_df, user, exercise, reps, weight, rpe)]
    /\ UNCHANGED <<workouts_df, models, model_metrics, now>>

-----------------------------------------------------------------------------
(* AIPredictor: generate_progression_plan *)

\* a selection whose bands include their lower thresholds
WeeklyIncrease_Inclusive(trend_analysis) ==
    LET weekly_progression ==
            IF trend_analysis.status = "success"
            THEN trend_analysis.weekly_progression ELSE 0
    IN  IF weekly_progression >= 200 THEN 250
        ELSE IF weekly_progression >= 100 THEN 150
        ELSE 100

\* lines 492-501, in hundredths of a kilogram per week; a trend analysis that
\* did not succeed has no weekly_progression and .get() gives 0
WeeklyIncrease(trend_analysis) ==
    LET weekly_progression ==
            IF trend_analysis.status = "success"
            THEN trend_analysis.weekly_progression ELSE 0
    IN  IF weekly_progression > 200 THEN 250
        ELSE IF weekly_progression > 100 THEN 150
        ELSE 100

\* a plan that takes the increase off the current weight
WeekWeight_Regressing(current_weight, weekly_increase, week) ==
    50 * RoundHalfEven(current_weight - weekly_increase * week, 50)

\* lines 506-507: round(week_weight * 2) / 2
WeekWeight(current_weight, weekly_increase, week) ==
    50 * RoundHalfEven(current_weight + weekly_increase * week, 50)

\* a target that keeps adding one from week 3 on without the cap at 9
TargetRpe_Uncapped(current_rpe, week) ==
    IF week <= 2 THEN Min(current_rpe, 8) ELSE current_rpe + 1

\* lines 509-515
TargetRpe(current_rpe, week) ==
    IF week <= 2 THEN Min(current_rpe, 8) ELSE Min(current_rpe + 1, 9)

_get_progression_notes(week, rpe) ==
    IF week = 1 THEN "Foundation week - focus on form"
    ELSE IF week = 2 THEN "Build week - maintain good technique"
    ELSE IF week = 3 THEN "Intensity week - push closer to limits"
    ELSE IF rpe >= 9 THEN "Test week - consider deload after this"
    ELSE "Progressive overload week"

\* the record generate_progression_plan returns
ProgressionPlan(df, today, user, exercise, weeks, midnight) ==
    LET exercise_data == get_exercise_history(df, user, exercise)
        latest_workout == exercise_data[Len(exercise_data)]
        current_weight == latest_workout.weight
        current_rpe == latest_workout.rpe
        trend_analysis == TrendAnalysis(df, today, user, exercise, 90, midnight)
        weekly_increase == WeeklyIncrease(trend_analysis)
    IN  IF exercise_data = <<>> THEN [status |-> "no_data"]
        ELSE [status |-> "success",
              current_weight |-> current_weight,
              progression_plan |->
                  [week \in 1..weeks |->
                     [week |-> week,
                      target_weight |-> WeekWeight(current_weight, weekly_increase, week),
                      target_rpe |-> TargetRpe(current_rpe, week),
                      notes |-> _get_progression_notes(week,
                                                       TargetRpe(current_rpe, week))]],
              weekly_increase |-> weekly_increase]

generate_progression_plan(user, exercise, weeks, midnight) ==
    /\ ret' = [call |-> [op |-> "generate_progression_plan", user |-> user,
                         exercise |-> exercise, weeks |-> weeks],
               val |-> ProgressionPlan(workouts_df, now, user, exercise, weeks, midnight)]
    /\ UNCHANGED <<workouts_df, models, model_metrics, now>>

-----------------------------------------------------------------------------
(* FatigueMonitor: calculate_fatigue_score *)

\* self.weights, lines 41-46, in tenths
FatigueWeights == [volume |-> 3, intensity |-> 4, frequency |-> 2, trend |-> 1]

TotalSets(workouts) == SumSeq([i \in DOMAIN workouts |-> workouts[i].sets])

\* (weight * sets * reps).sum(), in hundredths of a kilogram
TotalTonnage(workouts) ==
    SumSeq([i \in DOMAIN workouts |->
              workouts[i].weight * workouts[i].sets * workouts[i].reps])

_calculate_volume_fatigue(workouts) ==
    LET sets_score == Frac(10 * Min(TotalSets(workouts), 50), 50)
        tonnage_score == Frac(10 * Min(TotalTonnage(workouts), 1000000), 1000000)
    IN  IF workouts = <<>> THEN FInt(0)
        ELSE FMul(FAdd(sets_score, tonnage_score), Frac(1, 2))

\* np.average(rpe, weights=np.linspace(0.5, 1.0, n)) over the date-sorted rows:
\* the i-th weight is 1/2 + (i-1)/(2(n-1)), proportional to (n-1) + (i-1)
WeightedRpe(workouts_sorted) ==
    LET n == Len(workouts_sorted)
        w(i) == IF n = 1 THEN 1 ELSE (n - 1) + (i - 1)
    IN  Frac(SumSeq([i \in 1..n |-> w(i) * workouts_sorted[i].rpe]),
             SumSeq([i \in 1..n |-> w(i)]))

_calculate_intensity_fatigue(workouts) ==
    LET weighted_rpe == WeightedRpe(SortAsc(workouts))
        intensity_fatigue ==
            IF FLe(weighted_rpe, FInt(6)) THEN FInt(0)
            ELSE FMul(FSub(weighted_rpe, FInt(6)), Frac(10, 4))
    IN  IF workouts = <<>> THEN FInt(0)
        ELSE FMin(intensity_fatigue, FInt(10))

\* lines 170-183; days = 0 raises ZeroDivisionError, caught at 185-187
_calculate_frequency_fatigue(workouts, days) ==
    LET unique_days == Cardinality(Dates(workouts))
        frequency_ratio == Frac(unique_days, days)
    IN  IF workouts = <<>> THEN FInt(0)
        ELSE IF days = 0 THEN FInt(0)
        ELSE IF FLe(frequency_ratio, Frac(3, 10)) THEN FInt(1)
        ELSE IF FLe(frequency_ratio, Frac(6, 10)) THEN FInt(0)
        ELSE IF FLe(frequency_ratio, Frac(8, 10)) THEN FInt(3)
        ELSE FInt(7)

MaxDate(rows) ==
    CHOOSE d \in Dates(rows) : \A e \in Dates(rows) : e <= d

_calculate_trend_fatigue(df, today, user, days) ==
    LET recent_workouts == get_recent_workouts(df, today, user, days)
        previous_workouts == get_recent_workouts(df, today, user, days * 2)
        cutoff_date == MaxDate(previous_workouts) - days
        earlier_workouts ==
            SelectRows(previous_workouts, LAMBDA r : r.date <= cutoff_date)
        rpe_increase == FSub(MeanRpe(recent_workouts), MeanRpe(earlier_workouts))
        recent_volume == TotalSets(recent_workouts)
        earlier_volume == TotalSets(earlier_workouts)
        from_rpe == IF FLt(Frac(1, 2), rpe_increase)
                    THEN FMul(rpe_increase, FInt(2)) ELSE FInt(0)
        from_volume == IF recent_volume >= earlier_volume /\ FLt(FInt(0), rpe_increase)
                       THEN FInt(2) ELSE FInt(0)
    IN  IF Len(previous_workouts) < days \/ recent_workouts = <<>> THEN FInt(0)
        ELSE IF earlier_workouts = <<>> THEN FInt(0)
        ELSE FMin(FAdd(from_rpe, from_volume), FInt(10))

\* lines 72-77
TotalFatigue(volume_fatigue, intensity_fatigue, frequency_fatigue, trend_fatigue) ==
    FAdd(FAdd(FMul(volume_fatigue, Frac(FatigueWeights.volume, 10)),
              FMul(intensity_fatigue, Frac(FatigueWeights.intensity, 10))),
         FAdd(FMul(frequency_fatigue, Frac(FatigueWeights.frequency, 10)),
              FMul(trend_fatigue, Frac(FatigueWeights.trend, 10))))

\* the value calculate_fatigue_score returns, a fraction
FatigueScore(df, today, user, days) ==
    LET recent_workouts == get_recent_workouts(df, today, user, days)
        total_fatigue ==
            TotalFatigue(_calculate_volume_fatigue(recent_workouts),
                         _calculate_intensity_fatigue(recent_workouts),
                         _calculate_frequency_fatigue(recent_workouts, days),
                         _calculate_trend_fatigue(df, today, user, days))
    IN  IF recent_workouts = <<>> THEN FInt(0)
        ELSE FMax(FInt(0), FMin(FInt(10), total_fatigue))

\* a score that filters the tracker's own frame down to the window
calculate_fatigue_score_InPlace(user, days) ==
    /\ ret' = [call |-> [op |-> "calculate_fatigue_score", user |-> user,
                         days |-> days],
               val |-> Some(FatigueScore(workouts_df, now, user, days))]
    /\ workouts_df' = get_recent_workouts(workouts_df, now, user, days)
    /\ UNCHANGED <<models, model_metrics, now>>

calculate_fatigue_score(user, days) ==
    /\ ret' = [call |-> [op |-> "calculate_fatigue_score", user |-> user,
                         days |-> days],
               val |-> Some(FatigueScore(workouts_df, now, user, days))]
    /\ UNCHANGED <<workouts_df, models, model_metrics, now>>

-----------------------------------------------------------------------------
(* FatigueMonitor: get_fatigue_status, recommend_deload and                  *)
(* calculate_training_readiness; AIPredictor: recommend_training_load        *)

\* lines 252-267: the band of a score
FatigueBand(fatigue_score) ==
    IF FLe(fatigue_score, FInt(3))
    THEN [status |-> "Low", message |-> "Low fatigue levels. Good recovery status.",
          color |-> "green"]
    ELSE IF FLe(fatigue_score, FInt(6))
    THEN [status |-> "Moderate", message |-> "Moderate fatigue. Monitor training load.",
          color |-> "yellow"]
    ELSE IF FLe(fatigue_score, FInt(8))
    THEN [status |-> "High",
          message |-> "High fatigue levels. Consider reducing training load.",
          color |-> "orange"]
    ELSE [status |-> "Very High",
          message |-> "Very high fatigue. Deload or rest recommended.",
          color |-> "red"]

\* the record get_fatigue_status returns; the score is that of the default
\* window of 7 days
FatigueStatus(df, today, user) ==
    LET fatigue_score == FatigueScore(df, today, user, 7)
        band == FatigueBand(fatigue_score)
    IN  [score |-> fatigue_score, status |-> band.status,
         message |-> band.message, color |-> band.color]

get_fatigue_status(user) ==
    /\ ret' = [call |-> [op |-> "get_fatigue_status", user |-> user],
               val |-> FatigueStatus(workouts_df, now, user)]
    /\ UNCHANGED <<workouts_df, models, model_metrics, now>>

RECURSIVE Join(_)
\* ', '.join(strings)
Join(strings) ==
    IF strings = <<>> THEN ""
    ELSE IF Len(strings) = 1 THEN strings[1]
    ELSE strings[1] \o ", " \o Join(Tail(strings))

\* indicators whose fatigue threshold is that of the Very High band
DeloadIndicators_LateFatigue(fatigue_score, recent_workouts, total_workouts) ==
    LET avg_rpe == MeanRpe(recent_workouts)
        high_rpe_sessions == Len(SelectRows(recent_workouts, LAMBDA r : r.rpe >= 9))
        training_days == Cardinality(Dates(recent_workouts))
        weeks_training == total_workouts \div 3
    IN  (IF FLt(FInt(8), fatigue_score)
         THEN <<[name |-> "High fatigue levels", score |-> 3]>> ELSE <<>>)
        \o (IF FLt(Frac(17, 2), avg_rpe)
            THEN <<[name |-> "Consistently high RPE", score |-> 2]>> ELSE <<>>)
        \o (IF high_rpe_sessions >= 3
            THEN <<[name |-> "Multiple very high intensity sessions", score |-> 2]>>
            ELSE <<>>)
        \o (IF training_days > 10
            THEN <<[name |-> "High training frequency", score |-> 1]>> ELSE <<>>)
        \o (IF total_workouts > 20 /\ weeks_training >= 4
            THEN <<[name |-> "Extended training period", score |-> 1]>> ELSE <<>>)

\* lines 309-343: the indicators that fire, in the order of the code, each
\* with its contribution
DeloadIndicators(fatigue_score, recent_workouts, total_workouts) ==
    LET avg_rpe == MeanRpe(recent_workouts)
        high_rpe_sessions == Len(SelectRows(recent_workouts, LAMBDA r : r.rpe >= 9))
        training_days == Cardinality(Dates(recent_workouts))
        weeks_training == total_workouts \div 3
    IN  (IF FLt(FInt(7), fatigue_score)
         THEN <<[name |-> "High fatigue levels", score |-> 3]>> ELSE <<>>)
        \o (IF FLt(Frac(17, 2), avg_rpe)
            THEN <<[name |-> "Consistently high RPE", score |-> 2]>> ELSE <<>>)
        \o (IF high_rpe_sessions >= 3
            THEN <<[name |-> "Multiple very high intensity sessions", score |-> 2]>>
            ELSE <<>>)
        \o (IF training_days > 10
            THEN <<[name |-> "High training frequency", score |-> 1]>> ELSE <<>>)
        \o (IF total_workouts > 20 /\ weeks_training >= 4
            THEN <<[name |-> "Extended training period", score |-> 1]>> ELSE <<>>)

\* lines 345-354
DeloadSuggestion(deload_score) ==
    IF deload_score >= 4
    THEN "Take a deload week: reduce weight by 20-30% and focus on form"
    ELSE IF deload_score >= 2
    THEN "Consider a light deload: reduce volume by 30-40%"
    ELSE "Continue current training but monitor fatigue closely"

\* the record recommend_deload returns
DeloadRecommendation(df, today, user) ==
    LET fatigue_score == FatigueScore(df, today, user, 7)
        recent_workouts == get_recent_workouts(df, today, user, 14)
        fired == DeloadIndicators(fatigue_score, recent_workouts,
                                  Len(get_user_workouts(df, user)))
        deload_indicators == [i \in DOMAIN fired |-> fired[i].name]
        deload_score == SumSeq([i \in DOMAIN fired |-> fired[i].score])
    IN  IF recent_workouts = <<>>
        THEN [should_deload |-> FALSE,
              reason |-> "Insufficient data",
              suggestion |-> "Continue training and monitor fatigue"]
        ELSE [should_deload |-> deload_score >= 2,
              deload_score |-> deload_score,
              reason |-> IF deload_indicators # <<>> THEN Join(deload_indicators)
                         ELSE "Low deload indicators",
              suggestion |-> DeloadSuggestion(deload_score),
              indicators |-> deload_indicators]

recommend_deload(user) ==
    /\ ret' = [call |-> [op |-> "recommend_deload", user |-> user],
               val |-> DeloadRecommendation(workouts_df, now, user)]
    /\ UNCHANGED <<workouts_df, models, model_metrics, now>>

\* Series.std() of the rpe column (sample standard deviation, ddof = 1)
\* against a threshold: std < t iff the variance is below t * t.  The standard
\* deviation of a single value is NaN, and NaN is below nothing.
RpeStdBelow(rows, t) ==
    LET n == Len(rows)
        mean == MeanRpe(rows)
        squares == [i \in DOMAIN rows |->
                       FMul(FSub(FInt(rows[i].rpe), mean), FSub(FInt(rows[i].rpe), mean))]
        RECURSIVE FSum(_)
        FSum(s) == IF s = <<>> THEN FInt(0) ELSE FAdd(Head(s), FSum(Tail(s)))
        variance == FMul(FSum(squares), Frac(1, n - 1))
    IN  n > 1 /\ FLt(variance, FMul(t, t))

\* lines 494-503
ConsistencyBonus(recent_workouts) ==
    IF RpeStdBelow(recent_workouts, Frac(1, 2)) THEN FInt(1)
    ELSE IF RpeStdBelow(recent_workouts, FInt(1)) THEN Frac(1, 2)
    ELSE FInt(0)

\* lines 510-521
ReadinessBand(readiness_score) ==
    IF FLe(FInt(8), readiness_score)
    THEN [status |-> "Excellent", message |-> "Ready for high-intensity training"]
    ELSE IF FLe(FInt(6), readiness_score)
    THEN [status |-> "Good", message |-> "Ready for normal training load"]
    ELSE IF FLe(FInt(4), readiness_score)
    THEN [status |-> "Fair", message |-> "Consider moderate training intensity"]
    ELSE [status |-> "Poor", message |-> "Focus on recovery, light training only"]

\* the record calculate_training_readiness returns; readiness_score and
\* base_readiness in tenths
TrainingReadiness(df, today, user) ==
    LET fatigue_score == FatigueScore(df, today, user, 7)
        recent_workouts == get_recent_workouts(df, today, user, 7)
        base_readiness == FSub(FInt(10), fatigue_score)
        readiness_score ==
            FMin(FInt(10), FAdd(base_readiness, ConsistencyBonus(recent_workouts)))
        band == ReadinessBand(readiness_score)
    IN  IF recent_workouts = <<>>
        THEN [readiness_score |-> 50, status |-> "Unknown",
              message |-> "Insufficient recent data"]
        ELSE [readiness_score |-> RoundTo(readiness_score, 10),
              status |-> band.status,
              message |-> band.message,
              fatigue_component |-> fatigue_score,
              base_readiness |-> RoundTo(base_readiness, 10)]

calculate_training_readiness(user) ==
    /\ ret' = [call |-> [op |-> "calculate_training_readiness", user |-> user],
               val |-> TrainingReadiness(workouts_df, now, user)]
    /\ UNCHANGED <<workouts_df, models, model_metrics, now>>

\* ai_prediction.py lines 343-383: the advisories, in the order of the code
LoadRecommendations(total_sets, avg_rpe, workout_frequency) ==
    (IF workout_frequency < 2
     THEN <<[category |-> "frequency", priority |-> "medium",
             message |-> "Consider increasing workout frequency"]>>
     ELSE IF workout_frequency > 6
     THEN <<[category |-> "frequency", priority |-> "high",
             message |-> "Consider adding rest days"]>>
     ELSE <<>>)
    \o (IF FLt(FInt(9), avg_rpe)
        THEN <<[category |-> "intensity", priority |-> "high",
                message |-> "RPE too high, consider reducing intensity"]>>
        ELSE IF FLt(avg_rpe, FInt(6))
        THEN <<[category |-> "intensity", priority |-> "low",
                message |-> "RPE low, room for increased intensity"]>>
        ELSE <<>>)
    \o (IF total_sets > 100
        THEN <<[category |-> "volume", priority |-> "medium",
                message |-> "High training volume, monitor for overreaching"]>>
        ELSE IF total_sets < 20
        THEN <<[category |-> "volume", priority |-> "medium",
                message |-> "Low training volume, consider increasing"]>>
        ELSE <<>>)

\* the record recommend_training_load returns; avg_rpe in tenths,
\* total_tonnage in kilograms
TrainingLoad(df, today, user, days) ==
    LET recent_workouts == get_recent_workouts(df, today, user, days)
        total_sets == TotalSets(recent_workouts)
        avg_rpe == MeanRpe(recent_workouts)
        workout_frequency == Cardinality(Dates(recent_workouts))
    IN  IF recent_workouts = <<>> THEN [status |-> "no_data"]
        ELSE [status |-> "success",
              metrics |-> [total_sets |-> total_sets,
                           avg_rpe |-> RoundTo(avg_rpe, 10),
                           workout_frequency |-> workout_frequency,
                           total_tonnage |->
                               RoundTo(Frac(TotalTonnage(recent_workouts), 100), 1),
                           days_analyzed |-> days],
              recommendations |->
                  LoadRecommendations(total_sets, avg_rpe, workout_frequency)]

recommend_training_load(user, days) ==
    /\ ret' = [call |-> [op |-> "recommend_training_load", user |-> user,
                         days |-> days],
               val |-> TrainingLoad(workouts_df, now, user, days)]
    /\ UNCHANGED <<workouts_df, models, model_metrics, now>>

\* the history queries as calls: the rows a query returns
HistoryQuery(call, rows) ==
    /\ ret' = [call |-> call, val |-> [status |-> "ok", rows |-> rows]]
    /\ UNCHANGED <<workouts_df, models, model_metrics, now>>

-----------------------------------------------------------------------------
(* The engine as a state machine: a tracker that starts empty, a predictor   *)
(* with an empty cache, and callers that invoke any operation in any order.  *)

UserA == <<"A">>

UserLowerA == <<"a">>

UserAB == <<"a", "_", "b">>

ExerciseC == <<"c">>

ExerciseBC == <<"b", "_", "c">>

QueryUsers == {UserLowerA, UserAB}

QueryExercises == {ExerciseC, ExerciseBC}

\* the day of the calls
Today == 100

\* arguments of add_workout: <<user, date, exercise, sets, reps, weight, rpe>>
AddArgs ==
    {<<UserA, Today, ExerciseBC, 3, 5, 10000, 8>>,
     <<UserAB, Today, ExerciseC, 3, 5, 10000, 8>>,
     <<UserA \o <<" ">>, Today, ExerciseBC, 3, 5, 10000, 8>>,
     <<<<>>, Today, ExerciseC, 3, 5, 10000, 8>>,
     <<UserA, -1, ExerciseC, 3, 5, 10000, 8>>,
     <<UserA, Today, ExerciseC, 0, 5, 10000, 8>>,
     <<UserA, Today, ExerciseC, 3, 51, 10000, 8>>,
     <<UserA, Today, ExerciseC, 3, 5, 100001, 8>>,
     <<UserA, Today, ExerciseC, 3, 5, 10000, 11>>}

Init ==
    /\ workouts_df = <<>>
    /\ models = [k \in {} |-> {}]
    /\ model_metrics = [k \in {} |-> {}]
    /\ now = Today
    /\ ret = [call |-> [op |-> "init"], val |-> None]

AddWorkout ==
    \E a \in AddArgs :
        /\ Len(workouts_df) < MaxRows
        /\ add_workout(a[1], a[2], a[3], a[4], a[5], a[6], a[7])

DeleteWorkout ==
    \E a \in {<<UserLowerA, Today, ExerciseBC>>, <<UserAB, Today, ExerciseC>>,
              <<UserLowerA, Today - 7, ExerciseBC>>} :
        delete_workout(a[1], a[2], a[3])

UpdateWorkout ==
    \E a \in {<<UserLowerA, ExerciseBC, 10000>>, <<UserLowerA, ExerciseBC, 10250>>,
              <<UserAB, ExerciseBC, 10250>>} :
        update_workout(a[1], Today, a[2], {}, {}, {a[3]}, {})

PredictNextWeight ==
    \E u \in QueryUsers, e \in QueryExercises, use_rpe \in BOOLEAN :
        predict_next_weight(u, e, use_rpe, 10700)

GetModelAccuracy ==
    \E u \in QueryUsers, e \in QueryExercises : get_model_accuracy(u, e)

AnalyzeStrengthTrends ==
    analyze_strength_trends(UserLowerA, ExerciseBC, 90, FALSE)

PredictPerformancePlateau ==
    predict_performance_plateau(UserLowerA, ExerciseBC, FALSE)

Predict1RM ==
    \E rpe \in {8, 11} : predict_1rm(UserLowerA, ExerciseBC, 5, 14000, rpe)

GenerateProgressionPlan ==
    generate_progression_plan(UserLowerA, ExerciseBC, 4, FALSE)

CalculateFatigueScore ==
    calculate_fatigue_score(UserLowerA, 7)

GetFatigueStatus ==
    get_fatigue_status(UserLowerA)

RecommendDeload ==
    recommend_deload(UserLowerA)

CalculateTrainingReadiness ==
    calculate_training_readiness(UserLowerA)

RecommendTrainingLoad ==
    recommend_training_load(UserLowerA, 14)

GetUserWorkouts ==
    HistoryQuery([op |-> "get_user_workouts", user |-> UserLowerA],
                 get_user_workouts(workouts_df, UserLowerA))

GetExerciseHistory ==
    HistoryQuery([op |-> "get_exercise_history", user |-> UserLowerA,
                  exercise |-> ExerciseBC],
                 get_exercise_history(workouts_df, UserLowerA, ExerciseBC))

GetRecentWorkouts ==
    HistoryQuery([op |-> "get_recent_workouts", user |-> UserLowerA, days |-> 7],
                 get_recent_workouts(workouts_df, now, UserLowerA, 7))

Next ==
    \/ AddWorkout
    \/ DeleteWorkout
    \/ UpdateWorkout
    \/ PredictNextWeight
    \/ GetModelAccuracy
    \/ AnalyzeStrengthTrends
    \/ PredictPerformancePlateau
    \/ Predict1RM
    \/ GenerateProgressionPlan
    \/ CalculateFatigueScore
    \/ GetFatigueStatus
    \/ RecommendDeload
    \/ CalculateTrainingReadiness
    \/ RecommendTrainingLoad
    \/ GetUserWorkouts
    \/ GetExerciseHistory
    \/ GetRecentWorkouts

Spec == Init /\ [][Next]_vars

-----------------------------------------------------------------------------
(* Claims checked under Spec *)

HistoryOfCall ==
    get_exercise_history(workouts_df, ret.call.user, ret.call.exercise)

\* C1: whenever the exercise history of (user, exercise) holds fewer than 3
\* records (none at all and an unknown user included), predict_next_weight
\* returns None and not a number, for either value of use_rpe.  The call
\* leaves the store unchanged, so the history after the call is the history
\* it read.
C1_ShortHistoryNoPrediction ==
    (ret.call.op = "predict_next_weight" /\ Len(HistoryOfCall) < 3)
        => ret.val = None

\* a call on a history of exactly two records, with use_rpe off, returned None
C1_Witness ==
    /\ ret.call.op = "predict_next_weight"
    /\ ~ret.call.use_rpe
    /\ Len(HistoryOfCall) = 2
    /\ ret.val = None

\* the step is a predict_next_weight(u, e, ...) call that fitted a model
FittedFor(u, e) ==
    /\ ret'.call.op = "predict_next_weight"
    /\ ret'.call.user = u
    /\ ret'.call.exercise = e
    /\ ret'.val.status = "ok"

\* C9 (the claim as stated): get_model_accuracy(user, exercise) is None until a
\* fit is stored for that (user, exercise), from then on the R2 of the most
\* recent fit for that (user, exercise), and never becomes None again: the
\* value changes only in a step that fits for that very pair, and then it is
\* the R2 of that fit.
C9_AccuracyFollowsOwnFits ==
    [][\A u \in QueryUsers, e \in QueryExercises :
          IF FittedFor(u, e)
          THEN ModelAccuracy(model_metrics', u, e) =
                   Some(r2_score(Fit(get_exercise_history(workouts_df, u, e),
                                     ret'.call.use_rpe)))
          ELSE ModelAccuracy(model_metrics', u, e) =
                   ModelAccuracy(model_metrics, u, e)]_vars

\* C10: in every step that is not a predict_next_weight call, whatever the
\* operation, the value get_model_accuracy returns is the same before and
\* after for every (user, exercise); and a get_model_accuracy call returns
\* that value and changes neither the store nor the cache.
C10_AccuracyStableBetweenPredictions ==
    [][/\ ret'.call.op # "predict_next_weight" =>
             \A u \in QueryUsers, e \in QueryExercises :
                 ModelAccuracy(model_metrics', u, e) =
                     ModelAccuracy(model_metrics, u, e)
       /\ ret'.call.op = "get_model_accuracy" =>
             /\ UNCHANGED <<workouts_df, models, model_metrics, now>>
             /\ ret'.val = ModelAccuracy(model_metrics, ret'.call.user,
                                         ret'.call.exercise)]_vars

\* get_model_accuracy returned an R2 for a pair whose history has since been
\* deleted: the store changed between the fit and this call
C10_Witness ==
    /\ ret.call.op = "get_model_accuracy"
    /\ ret.call.user = UserLowerA
    /\ ret.call.exercise = ExerciseBC
    /\ ret.val.status = "ok"
    /\ HistoryOfCall = <<>>

-----------------------------------------------------------------------------
(* predict_next_weight on one logged history: three weekly sessions of one   *)
(* (user, exercise), any valid weights, either feature set, any prediction   *)
(* of a fit that the data do not determine.                                  *)

\* one row of user "A", exercise "b_c", 3 sets of 5
Session(date, weight, rpe) ==
    [user |-> UserA, date |-> date, exercise |-> ExerciseBC,
     sets |-> 3, reps |-> 5, weight |-> weight, rpe |-> rpe]

\* logged weights: 0, 2, 81, 92, 100, 102.2 and 103 kg
ClampWeights == {0, 200, 8100, 9200, 10000, 10220, 10300}

ClampRpes == {7, 9}

\* what the three-feature fit may predict: 90, 104.4 and 150 kg
ClampRaws == {9000, 10440, 15000}

InitClamp ==
    /\ \E w1 \in ClampWeights, w2 \in ClampWeights, w3 \in ClampWeights,
          r \in ClampRpes :
          workouts_df = <<Session(Today - 14, w1, 7), Session(Today - 7, w2, r),
                          Session(Today, w3, 7)>>
    /\ models = [k \in {} |-> {}]
    /\ model_metrics = [k \in {} |-> {}]
    /\ now = Today
    /\ ret = [call |-> [op |-> "init"], val |-> None]

NextClamp ==
    \E use_rpe \in BOOLEAN, raw \in ClampRaws :
        predict_next_weight(UserLowerA, ExerciseBC, use_rpe, raw)

SpecClamp == InitClamp /\ [][NextClamp]_vars

LastWeightOfCall == HistoryOfCall[Len(HistoryOfCall)].weight

\* C2 (the claim as stated): a returned weight exceeds the last logged weight
\* by at least 0.5 kg and at most a tenth of the last weight, and is a multiple
\* of 0.5 kg  (weights in hundredths of a kilogram, compared in thousandths)
C2_IncreaseWithinBounds ==
    (ret.call.op = "predict_next_weight" /\ ret.val.status = "ok") =>
        /\ 500 <= 10 * (ret.val.value - LastWeightOfCall)
        /\ 10 * (ret.val.value - LastWeightOfCall) <= LastWeightOfCall
        /\ ret.val.value % 50 = 0

-----------------------------------------------------------------------------
(* calculate_fatigue_score on a logged history of one user, for several      *)
(* window lengths.                                                           *)

MaxFatigueRows == 4     \* rows of the histories the score is computed on

FatigueDays == {0, 1, 2, 7}

\* a session of 5 reps at 100 kg
Training(date, sets, rpe) ==
    [user |-> UserA, date |-> date, exercise |-> ExerciseBC,
     sets |-> sets, reps |-> 5, weight |-> 10000, rpe |-> rpe]

\* heavy and light sessions today, yesterday, two and eight days ago, and one
\* logged under tomorrow's date (add_workout checks the format of a date only)
FatigueSessions ==
    {Training(Today, 20, 10), Training(Today, 3, 7), Training(Today - 1, 20, 10),
     Training(Today - 2, 3, 5), Training(Today - 8, 3, 8), Training(Today + 1, 3, 7)}

RECURSIVE SeqsUpTo(_, _)
\* the sequences over S of length at most n
SeqsUpTo(S, n) ==
    IF n = 0 THEN {<<>>}
    ELSE LET shorter == SeqsUpTo(S, n - 1)
         IN  shorter \cup {Append(h, x) : h \in shorter, x \in S}

InitFatigue ==
    /\ workouts_df \in SeqsUpTo(FatigueSessions, MaxFatigueRows)
    /\ models = [k \in {} |-> {}]
    /\ model_metrics = [k \in {} |-> {}]
    /\ now = Today
    /\ ret = [call |-> [op |-> "init"], val |-> None]

NextFatigue ==
    \E u \in QueryUsers, days \in FatigueDays : calculate_fatigue_score(u, days)

SpecFatigue == InitFatigue /\ [][NextFatigue]_vars

\* the user's workouts dated within [now - days, now]
InWindow(user, days) ==
    SelectRows(get_user_workouts(workouts_df, user),
               LAMBDA r : now - days <= r.date /\ r.date <= now)

\* C3 (the claim as stated): the score lies in [0, 10], and it is exactly 0
\* when the user has no workout dated within the window [now - days, now]
C3_ScoreInRangeAndZeroOnEmptyWindow ==
    ret.call.op = "calculate_fatigue_score" =>
        /\ FLe(FInt(0), ret.val.value)
        /\ FLe(ret.val.value, FInt(10))
        /\ InWindow(ret.call.user, ret.call.days) = <<>> => ret.val.value = FInt(0)

\* the history of the call drives every sub-score to its maximum: at least 50
\* sets and 10000 kg in the window, every session of the window at RPE 10,
\* training on more than 80% of its days, and a mean RPE at least 4 above
\* that of the sessions of the preceding window, which number at least `days`
\* together with the window's
ExtremeHistory(user, days) ==
    LET recent == get_recent_workouts(workouts_df, now, user, days)
        both == get_recent_workouts(workouts_df, now, user, 2 * days)
        before == SelectRows(both, LAMBDA r : r.date < now - days)
    IN  /\ days > 0
        /\ recent # <<>>
        /\ TotalSets(recent) >= 50
        /\ TotalTonnage(recent) >= 1000000
        /\ \A i \in DOMAIN recent : recent[i].rpe = 10
        /\ 10 * Cardinality(Dates(recent)) > 8 * days
        /\ before # <<>>
        /\ Len(both) >= days
        /\ \A i \in DOMAIN before : before[i].rpe <= 6

\* C4 (the claim as stated): on such a history the score is 10
C4_ExtremeHistoryScoresTen ==
    (ret.call.op = "calculate_fatigue_score"
        /\ ExtremeHistory(ret.call.user, ret.call.days))
        => ret.val.value = FInt(10)

-----------------------------------------------------------------------------
(* analyze_strength_trends on histories of two or three weekly sessions.     *)

\* logged weights: 0, 98, 100, 102 and 104 kg
TrendWeights == {0, 9800, 10000, 10200, 10400}

TrendDays == {7, 30}

InitTrend ==
    /\ \E w1 \in TrendWeights, w2 \in TrendWeights, w3 \in TrendWeights, n \in 2..3 :
          workouts_df = SubSeq(<<Session(Today - 14, w1, 7), Session(Today - 7, w2, 8),
                                 Session(Today, w3, 9)>>, 1, n)
    /\ models = [k \in {} |-> {}]
    /\ model_metrics = [k \in {} |-> {}]
    /\ now = Today
    /\ ret = [call |-> [op |-> "init"], val |-> None]

NextTrend ==
    \E u \in QueryUsers, e \in QueryExercises, days \in TrendDays, midnight \in BOOLEAN :
        analyze_strength_trends(u, e, days, midnight)

SpecTrend == InitTrend /\ [][NextTrend]_vars

TrendSucceeded ==
    ret.call.op = "analyze_strength_trends" /\ ret.val.status = "success"

\* C5 (the claim as stated): trend is one of the three values, and it is
\* stable exactly when the percentage_change reported in the same record is
\* below 2 in absolute value, increasing when that is positive, decreasing
\* otherwise
C5_TrendMatchesReportedChange ==
    TrendSucceeded =>
        /\ ret.val.trend \in {"stable", "increasing", "decreasing"}
        /\ ret.val.trend = "stable" <=> Abs(ret.val.percentage_change) < 20
        /\ Abs(ret.val.percentage_change) >= 20 =>
               ret.val.trend = (IF ret.val.percentage_change > 0
                                THEN "increasing" ELSE "decreasing")

\* C5 (amended): trend is one of the three values, and it is stable exactly
\* when the unrounded change (last_weight - first_weight) / first_weight * 100
\* of the record's own first and last weight (0 when first_weight is 0) is
\* below 2 in absolute value, increasing when that is positive, decreasing
\* otherwise
C5_TrendMatchesExactChange ==
    TrendSucceeded =>
        LET first == ret.val.first_weight
            last == ret.val.last_weight
            small == first = 0 \/ 100 * Abs(last - first) < 2 * first
        IN  /\ ret.val.trend \in {"stable", "increasing", "decreasing"}
            /\ ret.val.trend = "stable" <=> small
            /\ ~small => ret.val.trend = (IF last > first
                                          THEN "increasing" ELSE "decreasing")

\* a stable trend whose record reports a change of 2.0 percent, and the change
\* of exactly 2 percent that is not stable
C5_Witness ==
    /\ TrendSucceeded
    /\ ret.val.percentage_change = 20
    /\ ret.val.trend = "stable"
    /\ ret.val.first_weight = 10200
    /\ ret.val.last_weight = 10400

-----------------------------------------------------------------------------
(* generate_progression_plan on histories of one to three weekly sessions.   *)

MaxWeeks == 4       \* the longest plan asked for

\* logged weights: 0, 100, 100.25, 102, 102.2 and 105 kg
PlanWeights == {0, 10000, 10025, 10200, 10220, 10500}

InitPlan ==
    /\ \E w1 \in PlanWeights, w2 \in PlanWeights, w3 \in PlanWeights, n \in 1..3,
          r \in {7, 9} :
          workouts_df = SubSeq(<<Session(Today - 14, w1, 7), Session(Today - 7, w2, 8),
                                 Session(Today, w3, r)>>, 4 - n, 3)
    /\ models = [k \in {} |-> {}]
    /\ model_metrics = [k \in {} |-> {}]
    /\ now = Today
    /\ ret = [call |-> [op |-> "init"], val |-> None]

NextPlan ==
    \E u \in QueryUsers, weeks \in 1..MaxWeeks, midnight \in BOOLEAN :
        generate_progression_plan(u, ExerciseBC, weeks, midnight)

SpecPlan == InitPlan /\ [][NextPlan]_vars

PlanSucceeded ==
    ret.call.op = "generate_progression_plan" /\ ret.val.status = "success"

\* C6: a plan for a non-empty history and weeks >= 1 has exactly `weeks`
\* entries, numbered 1..weeks in order, and target_weight never decreases from
\* one week to the next
C6_PlanHasWeeksNonDecreasing ==
    /\ (ret.call.op = "generate_progression_plan"
            /\ get_exercise_history(workouts_df, ret.call.user, ret.call.exercise) # <<>>)
           => ret.val.status = "success"
    /\ PlanSucceeded =>
        LET plan == ret.val.progression_plan
        IN  /\ Len(plan) = ret.call.weeks
            /\ \A i \in DOMAIN plan : plan[i].week = i
            /\ \A i \in DOMAIN plan :
                   i > 1 => plan[i - 1].target_weight <= plan[i].target_weight

\* a four-week plan whose last target lies above its first
C6_Witness ==
    /\ PlanSucceeded
    /\ ret.call.weeks = 4
    /\ Len(ret.val.progression_plan) = 4
    /\ ret.val.progression_plan[1].target_weight
           < ret.val.progression_plan[4].target_weight

-----------------------------------------------------------------------------
(* predict_1rm for every RPE and repetition count around the tables' keys.   *)

MaxReps == 12       \* the most repetitions asked about

MaxRpe == 12        \* the highest RPE asked about

OneRmWeights == {10000, 14000}

Init1RM ==
    /\ \E w \in OneRmWeights, n \in 0..1 :
          workouts_df = SubSeq(<<Session(Today, w, 8)>>, 1, n)
    /\ models = [k \in {} |-> {}]
    /\ model_metrics = [k \in {} |-> {}]
    /\ now = Today
    /\ ret = [call |-> [op |-> "init"], val |-> None]

Next1RM ==
    \E reps \in -1..MaxReps, weight \in OneRmWeights, rpe \in -1..MaxRpe :
        predict_1rm(UserLowerA, ExerciseBC, reps, weight, rpe)

Spec1RM == Init1RM /\ [][Next1RM]_vars

\* C7 (the claim as stated): for a valid RPE, more than 10 reps take the flat
\* penalty -30 off the base percentage of the RPE, and reps in 1..10 take the
\* table value -3 * (reps - 1)
C7_RepPenalty ==
    (ret.call.op = "predict_1rm" /\ ret.val.status = "success") =>
        LET base_percentage == rpe_percentages[ret.call.rpe]
            estimated_percentage == ret.val.calculation_details.estimated_percentage
        IN  /\ ret.call.reps > 10 => estimated_percentage = base_percentage - 30
            /\ ret.call.reps \in 1..10 =>
                   estimated_percentage = base_percentage - 3 * (ret.call.reps - 1)

\* C8: predict_1rm returns invalid_rpe, and nothing else, for every rpe outside
\* 1..10, and a success record for every rpe in 1..10, whatever the reps, the
\* weight and the history
C8_InvalidRpeIffOutsideScale ==
    ret.call.op = "predict_1rm" =>
        IF ret.call.rpe \in 1..10
        THEN ret.val.status = "success"
        ELSE ret.val = [status |-> "invalid_rpe"]

\* RPE 11 asked about a user with a logged history
C8_Witness ==
    /\ ret.call.op = "predict_1rm"
    /\ ret.call.rpe = 11
    /\ ret.val.status = "invalid_rpe"
    /\ get_exercise_history(workouts_df, ret.call.user, ret.call.exercise) # <<>>

-----------------------------------------------------------------------------
(* The model cache, key by key (checked under Spec) *)

\* what models holds for (user, exercise)
StoredModel(cache, user, exercise) ==
    IF ModelKey(user, exercise) \in DOMAIN cache
    THEN [status |-> "ok", model |-> cache[ModelKey(user, exercise)]]
    ELSE None

\* C11 (the claim as stated): a predict_next_weight call for one (user,
\* exercise) pair leaves the stored model and the get_model_accuracy result of
\* every other pair unchanged, names that contain '_' included
C11_KeysIndependent ==
    [][\A u \in QueryUsers, e \in QueryExercises :
          (ret'.call.op = "predict_next_weight"
              /\ <<ret'.call.user, ret'.call.exercise>> # <<u, e>>)
          => /\ StoredModel(models', u, e) = StoredModel(models, u, e)
             /\ ModelAccuracy(model_metrics', u, e) = ModelAccuracy(model_metrics, u, e)]_vars

-----------------------------------------------------------------------------
(* A user with no workout records (checked under Spec) *)

\* the calls that take a user
UserCalls ==
    {"get_user_workouts", "get_exercise_history", "get_recent_workouts",
     "predict_next_weight", "get_model_accuracy", "analyze_strength_trends",
     "predict_performance_plateau", "predict_1rm", "generate_progression_plan",
     "recommend_training_load", "calculate_fatigue_score", "get_fatigue_status",
     "recommend_deload", "calculate_training_readiness"}

\* the last call was made for a user the store holds no record of
CallForUnknownUser ==
    /\ ret.call.op \in UserCalls
    /\ get_user_workouts(workouts_df, ret.call.user) = <<>>

\* C12: for a user with no workout records the history queries return an
\* empty sequence, predict_next_weight returns None, analyze_strength_trends
\* no_data, predict_performance_plateau insufficient_data,
\* generate_progression_plan no_data, recommend_training_load no_data; and no
\* operation that reports a status ever reports anything but success or a tag
\* of {no_data, insufficient_data, invalid_rpe} (None standing for
\* no_prediction), an error tag in particular
C12_UnknownUserTolerated ==
    /\ CallForUnknownUser =>
        CASE ret.call.op \in {"get_user_workouts", "get_exercise_history",
                              "get_recent_workouts"} -> ret.val.rows = <<>>
          [] ret.call.op = "predict_next_weight" -> ret.val = None
          [] ret.call.op = "analyze_strength_trends" -> ret.val = [status |-> "no_data"]
          [] ret.call.op = "predict_performance_plateau" ->
                 ret.val = [status |-> "insufficient_data"]
          [] ret.call.op = "generate_progression_plan" -> ret.val = [status |-> "no_data"]
          [] ret.call.op = "recommend_training_load" -> ret.val = [status |-> "no_data"]
          [] OTHER -> TRUE
    /\ ret.call.op \in {"analyze_strength_trends", "predict_performance_plateau",
                        "predict_1rm", "generate_progression_plan",
                        "recommend_training_load"}
           => ret.val.status \in {"success", "no_data", "insufficient_data", "invalid_rpe"}

\* a plateau assessment asked for a user without records while the store holds
\* another user's
C12_Witness ==
    /\ CallForUnknownUser
    /\ workouts_df # <<>>
    /\ ret.call.op = "predict_performance_plateau"
    /\ ret.val = [status |-> "insufficient_data"]

-----------------------------------------------------------------------------
(* predict_performance_plateau on histories of up to MaxSessions sessions.   *)

MaxSessions == 9    \* sessions of the longest history assessed

\* n sessions, `gap` days apart, the last one today: 100 kg except the last,
\* RPE r1 in the first half and r2 from then on
PlateauHistory(n, gap, last_weight, r1, r2) ==
    [i \in 1..n |-> Session(Today - gap * (n - i),
                            IF i = n THEN last_weight ELSE 10000,
                            IF 2 * i <= n THEN r1 ELSE r2)]

InitPlateau ==
    /\ \E n \in {2, 3, 4, MaxSessions}, gap \in {1, 7},
          last_weight \in {9000, 10000, 10100, 10250, 10500},
          r1 \in {6, 7, 9}, r2 \in {7, 9, 10} :
          workouts_df = PlateauHistory(n, gap, last_weight, r1, r2)
    /\ models = [k \in {} |-> {}]
    /\ model_metrics = [k \in {} |-> {}]
    /\ now = Today
    /\ ret = [call |-> [op |-> "init"], val |-> None]

NextPlateau ==
    \E u \in QueryUsers, e \in QueryExercises, midnight \in BOOLEAN :
        predict_performance_plateau(u, e, midnight)

SpecPlateau == InitPlateau /\ [][NextPlateau]_vars

PlateauSucceeded ==
    ret.call.op = "predict_performance_plateau" /\ ret.val.status = "success"

\* C13: in a successful assessment plateau_score is the sum of the
\* contributions of the indicators listed (Minimal weight progression 2, RPE
\* increasing without weight progression 3, Low overall progression rate 2,
\* Consistently high RPE 2), nothing else is listed, and the risk is high iff
\* score >= 5, moderate iff 3 <= score < 5, low iff score < 3
C13_ScoreSumsListedIndicators ==
    PlateauSucceeded =>
        LET listed == ret.val.indicators
            score == ret.val.plateau_score
            Worth(name, points) == IF name \in listed THEN points ELSE 0
        IN  /\ listed \subseteq {"Minimal weight progression",
                                 "RPE increasing without weight progression",
                                 "Low overall progression rate",
                                 "Consistently high RPE"}
            /\ score = Worth("Minimal weight progression", 2)
                       + Worth("RPE increasing without weight progression", 3)
                       + Worth("Low overall progression rate", 2)
                       + Worth("Consistently high RPE", 2)
            /\ ret.val.plateau_risk = "high" <=> score >= 5
            /\ ret.val.plateau_risk = "moderate" <=> (3 <= score /\ score < 5)
            /\ ret.val.plateau_risk = "low" <=> score < 3

\* an assessment in which three indicators fired together
C13_Witness ==
    /\ PlateauSucceeded
    /\ Cardinality(ret.val.indicators) = 3
    /\ ret.val.plateau_score = 7
    /\ ret.val.plateau_risk = "high"

-----------------------------------------------------------------------------
(* recommend_deload on histories of up to MaxLifetime sessions, some of them *)
(* older than two weeks, some of them logged under dates to come.            *)

MaxLifetime == 21   \* sessions of the longest history

\* a session of 5 reps at 100 kg
Logged(date, sets, rpe) ==
    [user |-> UserA, date |-> date, exercise |-> ExerciseBC,
     sets |-> sets, reps |-> 5, weight |-> 10000, rpe |-> rpe]

\* n sessions spread over `spread` consecutive days that end `ago` days ago,
\* the first `hard` of them at RPE 10 and the others at RPE rpe, followed by
\* `ahead` sessions at RPE 10 dated tomorrow
DeloadHistory(n, spread, ago, hard, rpe, sets, ahead) ==
    [i \in 1..n |-> Logged(Today - ago - ((i - 1) % spread), sets,
                           IF i <= hard THEN 10 ELSE rpe)]
    \o [i \in 1..ahead |-> Logged(Today + 1, sets, 10)]

InitDeload ==
    /\ \E n \in {0, 1, 3, 12, MaxLifetime}, spread \in {1, 11}, ago \in {0, 15},
          hard \in {0, 3}, rpe \in {7, 9}, sets \in {3, 20}, ahead \in {0, 3} :
          workouts_df = DeloadHistory(n, spread, ago, hard, rpe, sets, ahead)
    /\ models = [k \in {} |-> {}]
    /\ model_metrics = [k \in {} |-> {}]
    /\ now = Today
    /\ ret = [call |-> [op |-> "init"], val |-> None]

NextDeload ==
    \E u \in QueryUsers : recommend_deload(u)

SpecDeload == InitDeload /\ [][NextDeload]_vars

\* C14 (the claim as stated): for a user with workouts in the last 14 days,
\* deload_score is the sum of the indicators that fire on the sessions of the
\* last 14 days (fatigue score > 7: 3; mean RPE > 8.5: 2; at least 3 sessions
\* with RPE >= 9: 2; more than 10 distinct training days: 1; more than 20
\* lifetime workouts with total/3 >= 4: 1), should_deload iff the score is at
\* least 2, and the suggestion is the one of the score's band
C14_DeloadScoreSumsIndicators ==
    (ret.call.op = "recommend_deload" /\ InWindow(ret.call.user, 14) # <<>>) =>
        LET last14 == InWindow(ret.call.user, 14)
            fatigue == FatigueScore(workouts_df, now, ret.call.user, 7)
            total == Len(get_user_workouts(workouts_df, ret.call.user))
            hard == {i \in DOMAIN last14 : last14[i].rpe >= 9}
            expected ==
                (IF FLt(FInt(7), fatigue) THEN 3 ELSE 0)
                + (IF FLt(Frac(17, 2), MeanRpe(last14)) THEN 2 ELSE 0)
                + (IF Cardinality(hard) >= 3 THEN 2 ELSE 0)
                + (IF Cardinality(Dates(last14)) > 10 THEN 1 ELSE 0)
                + (IF total > 20 /\ total >= 3 * 4 THEN 1 ELSE 0)
        IN  /\ ret.val.deload_score = expected
            /\ ret.val.should_deload <=> expected >= 2
            /\ ret.val.suggestion =
                   (IF expected >= 4
                    THEN "Take a deload week: reduce weight by 20-30% and focus on form"
                    ELSE IF expected >= 2
                    THEN "Consider a light deload: reduce volume by 30-40%"
                    ELSE "Continue current training but monitor fatigue closely")

\* C15 (the claim as stated): for every user, one without workouts in the last
\* 14 days included, the record recommend_deload returns carries
\* should_deload, deload_score, reason, suggestion and indicators, and reason
\* is the comma-joined list of the indicators, or "Low deload indicators" when
\* there is none
C15_DeloadRecordComplete ==
    ret.call.op = "recommend_deload" =>
        /\ DOMAIN ret.val = {"should_deload", "deload_score", "reason",
                             "suggestion", "indicators"}
        /\ ret.val.reason = (IF ret.val.indicators = <<>>
                             THEN "Low deload indicators"
                             ELSE Join(ret.val.indicators))

-----------------------------------------------------------------------------
(* get_fatigue_status and calculate_training_readiness on the logged         *)
(* histories of SpecFatigue.                                                 *)

NextStatus ==
    \E u \in QueryUsers :
        \/ calculate_training_readiness(u)
        \/ get_fatigue_status(u)

SpecStatus == InitFatigue /\ [][NextStatus]_vars

\* the bonus as the claim gives it: 1 for a standard deviation of the RPE
\* values below 0.5, a single session included, 0.5 below 1, otherwise 0
ClaimedBonus(sessions) ==
    IF Len(sessions) = 1 \/ RpeStdBelow(sessions, Frac(1, 2)) THEN FInt(1)
    ELSE IF RpeStdBelow(sessions, FInt(1)) THEN Frac(1, 2)
    ELSE FInt(0)

\* C16 (the claim as stated): readiness_score lies in [0, 10]; with workouts
\* in the last 7 days it is min(10, (10 - fatigue_score) + bonus), to one
\* decimal, and the status is Excellent from 8, Good from 6, Fair from 4, else
\* Poor; with no workouts in the last 7 days it is 5 and the status is Unknown
C16_ReadinessFormula ==
    ret.call.op = "calculate_training_readiness" =>
        LET last7 == InWindow(ret.call.user, 7)
            fatigue == FatigueScore(workouts_df, now, ret.call.user, 7)
            readiness == FMin(FInt(10), FAdd(FSub(FInt(10), fatigue), ClaimedBonus(last7)))
        IN  /\ 0 <= ret.val.readiness_score /\ ret.val.readiness_score <= 100
            /\ last7 = <<>> =>
                   ret.val.readiness_score = 50 /\ ret.val.status = "Unknown"
            /\ last7 # <<>> =>
                   /\ ret.val.readiness_score = RoundTo(readiness, 10)
                   /\ ret.val.status =
                          (IF FLe(FInt(8), readiness) THEN "Excellent"
                           ELSE IF FLe(FInt(6), readiness) THEN "Good"
                           ELSE IF FLe(FInt(4), readiness) THEN "Fair"
                           ELSE "Poor")

\* C17 (the claim as stated): the status get_fatigue_status reports is Low iff
\* score <= 3, Moderate iff 3 < score <= 6, High iff 6 < score <= 8, Very
\* High iff score > 8, each with its message and color; and for a user with no
\* workouts in the last week the score is 0 and the status Low
C17_StatusBandsAndRestWeek ==
    ret.call.op = "get_fatigue_status" =>
        LET score == ret.val.score
            band == <<ret.val.status, ret.val.message, ret.val.color>>
        IN  /\ band = (IF FLe(score, FInt(3))
                       THEN <<"Low", "Low fatigue levels. Good recovery status.", "green">>
                       ELSE IF FLe(score, FInt(6))
                       THEN <<"Moderate", "Moderate fatigue. Monitor training load.",
                              "yellow">>
                       ELSE IF FLe(score, FInt(8))
                       THEN <<"High",
                              "High fatigue levels. Consider reducing training load.",
                              "orange">>
                       ELSE <<"Very High",
                              "Very high fatigue. Deload or rest recommended.", "red">>)
            /\ InWindow(ret.call.user, 7) = <<>> =>
                   score = FInt(0) /\ ret.val.status = "Low"

-----------------------------------------------------------------------------
(* predict_next_weight on three weekly sessions around the history           *)
(* (100 kg, RPE 7), (102.5 kg, RPE 7), (105 kg, RPE 8), for any prediction   *)
(* of the fitted model.                                                      *)

ExampleHistory ==
    <<Session(Today - 14, 10000, 7), Session(Today - 7, 10250, 7),
      Session(Today, 10500, 8)>>

\* what the three-feature fit may predict, from 0 to 200 kg
ExampleRaws ==
    {0, 10500, 10600, 10700, 10800, 10900, 11000, 11100, 11200, 11300, 11400,
     11549, 11551, 20000}

InitExample ==
    /\ \E w1 \in {9750, 10000}, w2 \in {10000, 10250}, w3 \in {10250, 10500},
          r3 \in {7, 8} :
          workouts_df = <<Session(Today - 14, w1, 7), Session(Today - 7, w2, 7),
                          Session(Today, w3, r3)>>
    /\ models = [k \in {} |-> {}]
    /\ model_metrics = [k \in {} |-> {}]
    /\ now = Today
    /\ ret = [call |-> [op |-> "init"], val |-> None]

NextExample ==
    \E use_rpe \in BOOLEAN, raw \in ExampleRaws :
        predict_next_weight(UserLowerA, ExerciseBC, use_rpe, raw)

SpecExample == InitExample /\ [][NextExample]_vars

\* C18: on the history (100, RPE 7, day 0), (102.5, RPE 7, day 7), (105, RPE 8,
\* day 14) with use_rpe on, predict_next_weight returns a number above 105, at
\* most 115.5, and a multiple of 0.5, whatever the fitted model predicts
C18_ExampleWithinBounds ==
    (ret.call.op = "predict_next_weight" /\ ret.call.use_rpe
        /\ HistoryOfCall = ExampleHistory)
        => /\ ret.val.status = "ok"
           /\ 10500 < ret.val.value
           /\ ret.val.value <= 11550
           /\ ret.val.value % 50 = 0

\* the example history, the fit predicting far above the cap, 115.5 returned
C18_Witness ==
    /\ ret.call.op = "predict_next_weight"
    /\ ret.call.use_rpe
    /\ HistoryOfCall = ExampleHistory
    /\ ret.val = Some(11550)

-----------------------------------------------------------------------------
(* The 1RM formula (checked under Spec1RM) *)

\* C19: for rpe in 1..10 and reps in 1..10, estimated_percentage is
\* (70 + 3 * rpe) - 3 * (reps - 1) and estimated_1rm is
\* weight / (estimated_percentage / 100) to one decimal, i.e. within 0.05 of
\* it; reps = 5, weight = 140, rpe = 8 give 82 and 170.7
C19_OneRepMaxFormula ==
    (ret.call.op = "predict_1rm" /\ ret.call.rpe \in 1..10 /\ ret.call.reps \in 1..10) =>
        LET estimated_percentage == (70 + 3 * ret.call.rpe) - 3 * (ret.call.reps - 1)
        IN  /\ ret.val.status = "success"
            /\ ret.val.calculation_details.estimated_percentage = estimated_percentage
            /\ 2 * Abs(ret.val.estimated_1rm * estimated_percentage
                       - 10 * ret.call.weight) <= estimated_percentage
            /\ (ret.call.reps = 5 /\ ret.call.weight = 14000 /\ ret.call.rpe = 8) =>
                   /\ ret.val.calculation_details.estimated_percentage = 82
                   /\ ret.val.estimated_1rm = 1707

\* the example: 5 reps at 140 kg, RPE 8
C19_Witness ==
    /\ ret.call.op = "predict_1rm"
    /\ ret.call.reps = 5
    /\ ret.call.weight = 14000
    /\ ret.call.rpe = 8
    /\ ret.val.status = "success"
    /\ ret.val.estimated_1rm = 1707

-----------------------------------------------------------------------------
(* The store under add_workout, update_workout and delete_workout with valid *)
(* and invalid arguments.                                                    *)

MaxStoreRows == 2   \* rows of the largest store

StoreAdd ==
    \E a \in AddArgs :
        /\ Len(workouts_df) < MaxStoreRows
        /\ add_workout(a[1], a[2], a[3], a[4], a[5], a[6], a[7])

\* new values of an existing entry of (a, today, b_c), any subset of the four
\* fields, inside and outside the ranges add_workout accepts
StoreUpdate ==
    \E sets \in {{}, {0}, {5}}, reps \in {{}, {51}}, weight \in {{}, {-100}, {10250}},
       rpe \in {{}, {11}} :
        update_workout(UserLowerA, Today, ExerciseBC, sets, reps, weight, rpe)

StoreDelete ==
    \E a \in {<<UserLowerA, Today, ExerciseBC>>, <<UserAB, Today, ExerciseC>>} :
        delete_workout(a[1], a[2], a[3])

NextStore ==
    \/ StoreAdd
    \/ StoreUpdate
    \/ StoreDelete

SpecStore == Init /\ [][NextStore]_vars

ValidEntry(r) ==
    /\ 1 <= r.sets /\ r.sets <= 20
    /\ 1 <= r.reps /\ r.reps <= 50
    /\ 0 <= r.weight /\ r.weight <= 100000
    /\ 1 <= r.rpe /\ r.rpe <= 10

Entries(df) == {df[i] : i \in DOMAIN df}

\* C20 (the claim as stated): after every add_workout, update_workout or
\* delete_workout call each stored entry has sets in [1,20], reps in [1,50],
\* weight in [0,1000] and rpe in [1,10]; an entry once logged is never
\* changed (a call only appends an entry or removes entries); and a rejected
\* add_workout leaves the store unchanged
C20_EntriesValidAndImmutable ==
    [][/\ \A r \in Entries(workouts_df') : ValidEntry(r)
       /\ IF Len(workouts_df') > Len(workouts_df)
          THEN SubSeq(workouts_df', 1, Len(workouts_df)) = workouts_df
          ELSE Entries(workouts_df') \subseteq Entries(workouts_df)
       /\ (ret'.call.op = "add_workout" /\ ret'.val.status = "rejected")
              => UNCHANGED workouts_df]_vars

-----------------------------------------------------------------------------
(* The history queries on stores that hold sessions dated before, inside and *)
(* after the window.                                                         *)

QueryDays == {1, 7}

NextQueries ==
    \/ \E u \in QueryUsers :
           HistoryQuery([op |-> "get_user_workouts", user |-> u],
                        get_user_workouts(workouts_df, u))
    \/ \E u \in QueryUsers, e \in QueryExercises :
           HistoryQuery([op |-> "get_exercise_history", user |-> u, exercise |-> e],
                        get_exercise_history(workouts_df, u, e))
    \/ \E u \in QueryUsers, days \in QueryDays :
           HistoryQuery([op |-> "get_recent_workouts", user |-> u, days |-> days],
                        get_recent_workouts(workouts_df, now, u, days))

SpecQueries == InitFatigue /\ [][NextQueries]_vars

\* the number of times the row r occurs in s
Count(s, r) == Cardinality({i \in DOMAIN s : s[i] = r})

SameRows(s, t) == \A r \in Entries(s) \cup Entries(t) : Count(s, r) = Count(t, r)

Ascending(s) == \A i, j \in DOMAIN s : i < j => s[i].date <= s[j].date

Descending(s) == \A i, j \in DOMAIN s : i < j => s[i].date >= s[j].date

\* C21 (the claim as stated): get_recent_workouts(user, days) returns exactly
\* the user's entries dated within [now - days, now], none dated after now and
\* none older than the window, in descending date order; get_exercise_history
\* and get_user_workouts return their entries in ascending date order
C21_RecentWithinWindowDescending ==
    /\ ret.call.op = "get_recent_workouts" =>
           /\ SameRows(ret.val.rows, InWindow(ret.call.user, ret.call.days))
           /\ Descending(ret.val.rows)
    /\ ret.call.op \in {"get_exercise_history", "get_user_workouts"} =>
           Ascending(ret.val.rows)

-----------------------------------------------------------------------------
(* The trend sub-score on histories without future-dated sessions.           *)

\* a call of FatigueMonitor._calculate_trend_fatigue
TrendFatigueCall(user, days) ==
    /\ ret' = [call |-> [op |-> "_calculate_trend_fatigue", user |-> user,
                         days |-> days],
               val |-> Some(_calculate_trend_fatigue(workouts_df, now, user, days))]
    /\ UNCHANGED <<workouts_df, models, model_metrics, now>>

\* sessions today, yesterday, and three, eight and ten days ago
TrendFatigueSessions ==
    {Training(Today, 3, 10), Training(Today - 1, 3, 7), Training(Today - 3, 5, 5),
     Training(Today - 8, 3, 8), Training(Today - 10, 3, 5)}

InitTrendFatigue ==
    /\ workouts_df \in SeqsUpTo(TrendFatigueSessions, MaxFatigueRows)
    /\ models = [k \in {} |-> {}]
    /\ model_metrics = [k \in {} |-> {}]
    /\ now = Today
    /\ ret = [call |-> [op |-> "init"], val |-> None]

NextTrendFatigue ==
    \E u \in QueryUsers, days \in {2, 7} : TrendFatigueCall(u, days)

SpecTrendFatigue == InitTrendFatigue /\ [][NextTrendFatigue]_vars

\* the user's workouts of the window that immediately precedes the most
\* recent one: dated within [now - 2 * days, now - days)
InPrecedingWindow(user, days) ==
    SelectRows(get_user_workouts(workouts_df, user),
               LAMBDA r : now - 2 * days <= r.date /\ r.date < now - days)

\* C22 (the claim as stated): the trend sub-score compares the most recent
\* `days` window with the window immediately before it; when both hold a
\* workout it equals min(10, (2 * increase if the mean-RPE increase exceeds
\* 0.5, else 0) + (2 if recent volume >= prior volume and RPE rose, else 0)),
\* and it is 0 when the preceding window holds no workout
C22_TrendComparesAdjacentWindows ==
    ret.call.op = "_calculate_trend_fatigue" =>
        LET recent == InWindow(ret.call.user, ret.call.days)
            prior == InPrecedingWindow(ret.call.user, ret.call.days)
            increase == FSub(MeanRpe(recent), MeanRpe(prior))
            from_rpe == IF FLt(Frac(1, 2), increase)
                        THEN FMul(FInt(2), increase) ELSE FInt(0)
            from_volume == IF TotalSets(recent) >= TotalSets(prior)
                              /\ FLt(FInt(0), increase)
                           THEN FInt(2) ELSE FInt(0)
        IN  /\ (recent # <<>> /\ prior # <<>>) =>
                   ret.val.value = FMin(FInt(10), FAdd(from_rpe, from_volume))
            /\ prior = <<>> => ret.val.value = FInt(0)

-----------------------------------------------------------------------------
(* The progression plan's weekly increase and targets (checked under         *)
(* SpecPlan).                                                                *)

\* the trend analysis of the call's history over the default window of 90 days
DefaultTrendOfCall(midnight) ==
    TrendAnalysis(workouts_df, now, ret.call.user, ret.call.exercise, 90, midnight)

\* C23: weekly_increase is 2.5 when the weekly_progression of the
\* default-window trend analysis exceeds 2, 1.5 when it exceeds 1 and is at
\* most 2, and 1.0 otherwise, also when the analysis has no weekly_progression
\* (no_data, insufficient_data); every week w has target_weight equal to the
\* most recent logged weight plus weekly_increase * w, rounded to a nearest
\* multiple of 0.5
C23_WeeklyIncreaseFromTrend ==
    PlanSucceeded =>
        \E midnight \in BOOLEAN :
            LET t == DefaultTrendOfCall(midnight)
                hist == get_exercise_history(workouts_df, ret.call.user,
                                             ret.call.exercise)
                base_weight == hist[Len(hist)].weight
                inc == ret.val.weekly_increase
                plan == ret.val.progression_plan
            IN  /\ IF t.status = "success" /\ t.weekly_progression > 200
                   THEN inc = 250
                   ELSE IF t.status = "success" /\ t.weekly_progression > 100
                   THEN inc = 150
                   ELSE inc = 100
                /\ \A w \in DOMAIN plan :
                       /\ plan[w].target_weight % 50 = 0
                       /\ Abs(plan[w].target_weight - (base_weight + inc * w)) <= 25

\* a plan on a history that progressed by exactly 2 kg per week: the increase
\* is 1.5
C23_Witness ==
    /\ PlanSucceeded
    /\ DefaultTrendOfCall(FALSE).status = "success"
    /\ DefaultTrendOfCall(FALSE).weekly_progression = 200
    /\ ret.val.weekly_increase = 150
    /\ Len(ret.val.progression_plan) = 4

\* C24: target_rpe is min(base_rpe, 8) in weeks 1 and 2 and
\* min(base_rpe + 1, 9) in every week from 3 on, base_rpe being the RPE of the
\* most recent session; it never exceeds 9 and never decreases from one week
\* to the next; the note of a week >= 4 is the test-week note iff its
\* target_rpe >= 9, otherwise the progressive-overload note
C24_TargetRpeCappedAndMonotone ==
    PlanSucceeded =>
        LET hist == get_exercise_history(workouts_df, ret.call.user, ret.call.exercise)
            base_rpe == hist[Len(hist)].rpe
            plan == ret.val.progression_plan
        IN  \A w \in DOMAIN plan :
                /\ w <= 2 => plan[w].target_rpe = Min(base_rpe, 8)
                /\ w >= 3 => plan[w].target_rpe = Min(base_rpe + 1, 9)
                /\ plan[w].target_rpe <= 9
                /\ w > 1 => plan[w - 1].target_rpe <= plan[w].target_rpe
                /\ w >= 4 =>
                       /\ plan[w].target_rpe >= 9 <=>
                              plan[w].notes = "Test week - consider deload after this"
                       /\ plan[w].target_rpe < 9 <=>
                              plan[w].notes = "Progressive overload week"

\* a four-week plan from a last session at RPE 9: 8, 8, 9, 9 and a test week
C24_Witness ==
    /\ PlanSucceeded
    /\ Len(ret.val.progression_plan) = 4
    /\ ret.val.progression_plan[2].target_rpe = 8
    /\ ret.val.progression_plan[4].target_rpe = 9
    /\ ret.val.progression_plan[4].notes = "Test week - consider deload after this"

-----------------------------------------------------------------------------
(* analyze_strength_trends on histories with sessions on one day, on days    *)
(* that are not whole weeks apart, on the edge of the window and outside it. *)

MaxTrendRows == 3   \* rows of the longest such history

\* sessions of 0, 100 and 101 kg today, of 0 and 100 kg seven and nine days
\* ago, and one of 100 kg forty days ago
WindowSessions ==
    {Session(Today, 0, 8), Session(Today, 10000, 8), Session(Today, 10100, 8),
     Session(Today - 7, 0, 7), Session(Today - 7, 10000, 7),
     Session(Today - 9, 0, 7), Session(Today - 9, 10000, 7),
     Session(Today - 40, 10000, 7)}

InitWindow ==
    /\ workouts_df \in SeqsUpTo(WindowSessions, MaxTrendRows)
    /\ models = [k \in {} |-> {}]
    /\ model_metrics = [k \in {} |-> {}]
    /\ now = Today
    /\ ret = [call |-> [op |-> "init"], val |-> None]

NextWindow ==
    \E days \in TrendDays, midnight \in BOOLEAN :
        analyze_strength_trends(UserLowerA, ExerciseBC, days, midnight)

SpecWindow == InitWindow /\ [][NextWindow]_vars

\* the entries of the call's history that lie within `days` days of the
\* moment of the call; an entry is dated at midnight, so one dated exactly
\* `days` days ago lies within them only for a call made at midnight
InsideWindowOfCall ==
    SelectRows(HistoryOfCall,
               LAMBDA r : r.date >= now - ret.call.days
                                      + (IF ret.call.midnight THEN 0 ELSE 1))

\* no_data on an empty history, insufficient_data when fewer than 2 entries lie
\* inside the window, success otherwise and then percentage_change is 0 when
\* the first weight in the window is 0
TrendGuards ==
    /\ ret.val.status \in {"no_data", "insufficient_data", "success"}
    /\ ret.val.status = "no_data" <=> HistoryOfCall = <<>>
    /\ ret.val.status = "insufficient_data" <=>
           (HistoryOfCall # <<>> /\ Len(InsideWindowOfCall) < 2)
    /\ ret.val.status = "success" =>
           (ret.val.first_weight = 0 => ret.val.percentage_change = 0)

-----------------------------------------------------------------------------
(* The cache under calls that run one after another (checked under Spec).    *)

\* the fit of the call that has just returned, on the history it read
FitOfCall == Fit(HistoryOfCall, ret.call.use_rpe)

\* C26: with the predict_next_weight calls of a key running one at a time,
\* once a call that fitted has returned, the model and the metrics stored
\* under its key are both those of that call's fit alone, whatever was stored
\* before; and every stored model is paired with the metrics of its own fit
C26_LastWriterWins ==
    /\ (ret.call.op = "predict_next_weight" /\ ret.val.status = "ok") =>
           LET model_key == ModelKey(ret.call.user, ret.call.exercise)
           IN  /\ model_key \in DOMAIN models
               /\ models[model_key] = FitOfCall
               /\ model_metrics[model_key] = Metrics(FitOfCall, now)
    /\ DOMAIN models = DOMAIN model_metrics
    /\ \A k \in DOMAIN models :
           /\ model_metrics[k].r2_score = r2_score(models[k])
           /\ model_metrics[k].mean_absolute_error = mean_absolute_error(models[k])
           /\ model_metrics[k].data_points = Len(models[k].X)

\* a call without RPE has returned on a history whose weights were updated
\* since they were logged: the key holds the fit of this call
C26_Witness ==
    /\ ret.call.op = "predict_next_weight"
    /\ ret.val.status = "ok"
    /\ ~ret.call.use_rpe
    /\ ret.call.user = UserLowerA
    /\ ret.call.exercise = ExerciseBC
    /\ models[ModelKey(UserLowerA, ExerciseBC)].y = <<10250, 10250, 10250>>
    /\ Len(models[ModelKey(UserLowerA, ExerciseBC)].X[1]) = 1
    /\ ModelKey(UserAB, ExerciseBC) \notin DOMAIN models

AnalyticsOps ==
    {"predict_next_weight", "get_model_accuracy", "analyze_strength_trends",
     "predict_performance_plateau", "predict_1rm", "generate_progression_plan",
     "recommend_training_load", "calculate_fatigue_score", "get_fatigue_status",
     "recommend_deload", "calculate_training_readiness"}

\* C27: no analytics operation changes the stored workout history, and every
\* one of them except predict_next_weight leaves the model cache (models and
\* metrics) unchanged
C27_AnalyticsFrame ==
    [][ret'.call.op \in AnalyticsOps =>
           /\ workouts_df' = workouts_df
           /\ ret'.call.op # "predict_next_weight" =>
                  (models' = models /\ model_metrics' = model_metrics)]_vars

\* a fatigue score was computed on a store that holds a workout of another
\* user and two of the user's, with a fitted model in the cache
C27_Witness ==
    /\ ret.call.op = "calculate_fatigue_score"
    /\ ret.val.value # FInt(0)
    /\ Len(workouts_df) = 3
    /\ \E i \in DOMAIN workouts_df : Lower(workouts_df[i].user) # ret.call.user
    /\ DOMAIN models # {}

\* C28: a predict_next_weight call that returns None because the history
\* holds fewer than 3 records leaves the model cache exactly as it was (no
\* entry created, none overwritten or removed); a call that returns a number
\* has stored a model and metrics under its key, so get_model_accuracy for
\* that user and exercise returns a value right after it
C28_CacheOnlyOnSuccess ==
    [][ret'.call.op = "predict_next_weight" =>
           LET history == get_exercise_history(workouts_df, ret'.call.user,
                                               ret'.call.exercise)
               model_key == ModelKey(ret'.call.user, ret'.call.exercise)
           IN  /\ (Len(history) < 3 /\ ret'.val = None) =>
                      (models' = models /\ model_metrics' = model_metrics)
               /\ ret'.val # None =>
                      /\ model_key \in DOMAIN models'
                      /\ model_key \in DOMAIN model_metrics'
                      /\ ModelAccuracy(model_metrics', ret'.call.user,
                                       ret'.call.exercise) # None]_vars

\* a call returned None on a history cut back to two records while the cache
\* still holds the entry of its key fitted earlier
C28_Witness ==
    /\ ret.call.op = "predict_next_weight"
    /\ ret.val = None
    /\ Len(HistoryOfCall) = 2
    /\ ModelKey(ret.call.user, ret.call.exercise) \in DOMAIN models
    /\ Len(models[ModelKey(ret.call.user, ret.call.exercise)].y) = 3

-----------------------------------------------------------------------------
(* The four fatigue operations on one history: sessions of the last week up  *)
(* to daily and maximal, and easier sessions ten days ago.                   *)

MaxCrossSessions == 7   \* sessions of the last week in the fullest history

\* n sessions at RPE rpe spread over `spread` consecutive days that end
\* today, after `prior` sessions at RPE 5 ten days ago
CrossHistory(n, spread, rpe, sets, prior) ==
    [i \in 1..prior |-> Logged(Today - 10, 3, 5)]
    \o [i \in 1..n |-> Logged(Today - ((i - 1) % spread), sets, rpe)]

InitCross ==
    /\ \E n \in {0, 1, 3, MaxCrossSessions}, spread \in {1, 2, 5, 7},
          rpe \in {6, 8, 9, 10}, sets \in {3, 10, 20}, prior \in {0, 1, 7} :
          workouts_df = CrossHistory(n, spread, rpe, sets, prior)
    /\ models = [k \in {} |-> {}]
    /\ model_metrics = [k \in {} |-> {}]
    /\ now = Today
    /\ ret = [call |-> [op |-> "init"], val |-> None]

NextCross ==
    \E u \in QueryUsers :
        \/ calculate_fatigue_score(u, 7)
        \/ get_fatigue_status(u)
        \/ recommend_deload(u)
        \/ calculate_training_readiness(u)

SpecCross == InitCross /\ [][NextCross]_vars

\* what calculate_fatigue_score(user) and get_fatigue_status(user) give on the
\* history of the call that has just returned
ScoreOfCall == FatigueScore(workouts_df, now, ret.call.user, 7)

StatusOfCall == FatigueStatus(workouts_df, now, ret.call.user).status

\* C29: on one history, whenever calculate_fatigue_score(user) exceeds 7,
\* recommend_deload(user) returns should_deload = true with 'High fatigue
\* levels' among its indicators; and whenever get_fatigue_status(user) reports
\* Very High, calculate_training_readiness(user) reports the status Poor
C29_FatigueOperationsAgree ==
    /\ (ret.call.op = "recommend_deload" /\ FLt(FInt(7), ScoreOfCall)) =>
           /\ ret.val.should_deload
           /\ "indicators" \in DOMAIN ret.val
           /\ \E i \in DOMAIN ret.val.indicators :
                  ret.val.indicators[i] = "High fatigue levels"
    /\ (ret.call.op = "calculate_training_readiness" /\ StatusOfCall = "Very High") =>
           ret.val.status = "Poor"

\* a readiness of Poor on a history whose fatigue status is Very High and on
\* which recommend_deload names the high fatigue first
C29_Witness ==
    /\ ret.call.op = "calculate_training_readiness"
    /\ StatusOfCall = "Very High"
    /\ ret.val.status = "Poor"
    /\ DeloadRecommendation(workouts_df, now, ret.call.user).should_deload
    /\ DeloadRecommendation(workouts_df, now, ret.call.user).indicators[1]
           = "High fatigue levels"

-----------------------------------------------------------------------------
(* The range of the 1RM percentage: predict_1rm at every valid RPE, with no  *)
(* weight and with a weight logged to the hundredth.                         *)

\* weights asked about: 0, 100.25 and 140 kg
EstimateWeights == {0, 10025, 14000}

InitEstimate ==
    /\ \E n \in 0..1 : workouts_df = SubSeq(<<Session(Today, 10000, 8)>>, 1, n)
    /\ models = [k \in {} |-> {}]
    /\ model_metrics = [k \in {} |-> {}]
    /\ now = Today
    /\ ret = [call |-> [op |-> "init"], val |-> None]

NextEstimate ==
    \E reps \in -1..MaxReps, weight \in EstimateWeights, rpe \in 1..10 :
        predict_1rm(UserLowerA, ExerciseBC, reps, weight, rpe)

SpecEstimate == InitEstimate /\ [][NextEstimate]_vars

OneRmOfValidRpe == ret.call.op = "predict_1rm" /\ ret.call.rpe \in 1..10

\* C30 (the claim as stated): for every rpe in 1..10 and every integer reps,
\* zero, negative and above 10 included, estimated_percentage lies in
\* [43, 100], so the divisor is positive, and estimated_1rm >= weight for
\* every weight >= 0
C30_EstimateAtLeastWeight ==
    OneRmOfValidRpe =>
        /\ ret.val.status = "success"
        /\ ret.val.calculation_details.estimated_percentage \in 43..100
        /\ ret.call.weight >= 0 => 10 * ret.val.estimated_1rm >= ret.call.weight

\* C30 (amended): estimated_percentage lies in [43, 100], and estimated_1rm is
\* weight / (estimated_percentage / 100), which is at least weight, rounded to
\* one decimal: it is never more than 0.05 below weight
C30_RoundedEstimateAtLeastWeight ==
    OneRmOfValidRpe =>
        LET estimated_percentage == ret.val.calculation_details.estimated_percentage
        IN  /\ ret.val.status = "success"
            /\ estimated_percentage \in 43..100
            /\ ret.call.weight >= 0 =>
                   /\ 2 * Abs(ret.val.estimated_1rm * estimated_percentage
                              - 10 * ret.call.weight) <= estimated_percentage
                   /\ 10 * ret.val.estimated_1rm + 5 >= ret.call.weight

\* a single at RPE 10 with 100.25 kg is estimated at 100.2
C30_Witness ==
    /\ OneRmOfValidRpe
    /\ ret.call.rpe = 10
    /\ ret.call.reps = 1
    /\ ret.call.weight = 10025
    /\ ret.val.calculation_details.estimated_percentage = 100
    /\ ret.val.estimated_1rm = 1002

====
